---- MODULE Spec2Model ----
(***************************************************************************)
(* Model of the two command-line tools of DailyFinanceReportAgent:         *)
(*   scripts/ai_summary.py    - the Summary Fetcher                        *)
(*   scripts/render_report.py - the Report Renderer                        *)
(* Text is a sequence of characters.  A character is a string: itself for  *)
(* printable ASCII, "\t" "\n" "\r" "\f" for those four, and "U+XXXX" (the  *)
(* code point, upper-case hex, at least four digits) for every other one.  *)
(* The characters the model classifies are ASCII, the Unicode whitespace   *)
(* and the Unicode digits.  JSON values are tagged records, so that a      *)
(* missing key, null, a number, a string, a list and an object can be told *)
(* apart the way Python tells them apart; JSON true/false and fractional   *)
(* numbers are not among the values of the model.                          *)
(***************************************************************************)
EXTENDS Integers, Sequences, FiniteSets, TLC

VARIABLES
  pc,           \* position of the running process
  args,         \* the command line: which flags were given
  stdout,       \* lines printed to standard output
  stderr,       \* lines printed to standard error
  exit_code,    \* process exit status, NoExit while running
  api_key,      \* os.getenv('GOOGLE_AI_API_KEY')
  input_file,   \* what is at the --input path
  file_read,    \* the input file has been opened and read
  data,         \* the parsed input of the Summary Fetcher
  response,     \* the outcome of requests.post
  posts,        \* number of HTTP POSTs issued
  redirects,    \* number of redirects requests.post has followed
  payload,      \* the parsed input of the Report Renderer
  html_output,  \* render_html(payload)
  text_output,  \* render_text(payload)
  html_file,    \* state of the file at --html-output
  text_file,    \* state of the file at --text-output
  summary,      \* an account's aiSummary, for the summary specification
  parsed,       \* parse_ai_summary(summary), once computed
  summary_parts,\* the AI Highlights block of build_account_html
  summary_text  \* the AI Highlights lines of render_text

vars == <<pc, args, stdout, stderr, exit_code, api_key, input_file, file_read,
          data, response, posts, redirects, payload, html_output, text_output,
          html_file, text_file, summary, parsed, summary_parts, summary_text>>

fetchVars == <<api_key, file_read, data, response, posts, redirects>>
renderVars == <<payload, html_output, text_output, html_file, text_file>>
summaryVars == <<summary, parsed, summary_parts, summary_text>>

-----------------------------------------------------------------------------
(* Bounds of the model *)

MaxLen == 4        \* longest enumerated aiSummary
MaxParts == 2      \* most text parts in one candidate
MaxAccounts == 2   \* most accounts in one payload

(* Program constants *)

WrapWidth == 90    \* wrap(item.strip(), width=90)

-----------------------------------------------------------------------------
(* JSON values and Python truthiness *)

JAbsent == [t |-> "absent"]          \* the key is not in the object
JNull == [t |-> "null"]
JStr(s) == [t |-> "str", v |-> s]
JNum(n) == [t |-> "num", v |-> n]
JList(l) == [t |-> "list", v |-> l]
JObj(o) == [t |-> "obj", v |-> o]
EmptyObj == JObj(<<>>)               \* {}

None == [t |-> "none"]               \* Python's None / not yet computed
NoExit == 0 - 1                      \* the process is still running

\* bool(v) for a value obtained with dict.get(key): a missing key gives None;
\* None, 0, '', [] and {} are false
Truthy(v) ==
  CASE v.t = "str" -> v.v # <<>>
    [] v.t = "num" -> v.v # 0
    [] v.t = "list" -> v.v # <<>>
    [] v.t = "obj" -> DOMAIN v.v # {}
    [] OTHER -> FALSE

-----------------------------------------------------------------------------
(* Text helpers: str.strip, str.splitlines, str.startswith, str.isdigit *)

\* the characters of a string literal
Chars(str) == [i \in 1..Len(str) |-> SubSeq(str, i, i)]

NL == "\n"
CR == "\r"
TAB == "\t"

\* the characters str.isspace() is true of, which str.strip() removes
Whitespace ==
  {"\t", "\n", "U+000B", "\f", "\r", "U+001C", "U+001D", "U+001E", "U+001F",
   " ", "U+0085", "U+00A0", "U+1680", "U+2000", "U+2001", "U+2002",
   "U+2003", "U+2004", "U+2005", "U+2006", "U+2007", "U+2008", "U+2009",
   "U+200A", "U+2028", "U+2029", "U+202F", "U+205F", "U+3000"}

\* the line boundaries of str.splitlines(); "\r\n" counts as one
LineBreaks ==
  {"\n", "U+000B", "\f", "\r", "U+001C", "U+001D", "U+001E", "U+0085",
   "U+2028", "U+2029"}

AsciiDigits == {"0", "1", "2", "3", "4", "5", "6", "7", "8", "9"}

\* the characters beyond 0-9 that str.isdigit() is true of
UnicodeDigits ==
  {"U+00B2", "U+00B3", "U+00B9", "U+0660", "U+0661", "U+0662", "U+0663",
   "U+0664", "U+0665", "U+0666", "U+0667", "U+0668", "U+0669", "U+06F0",
   "U+06F1", "U+06F2", "U+06F3", "U+06F4", "U+06F5", "U+06F6", "U+06F7",
   "U+06F8", "U+06F9", "U+07C0", "U+07C1", "U+07C2", "U+07C3", "U+07C4",
   "U+07C5", "U+07C6", "U+07C7", "U+07C8", "U+07C9", "U+0966", "U+0967",
   "U+0968", "U+0969", "U+096A", "U+096B", "U+096C", "U+096D", "U+096E",
   "U+096F", "U+09E6", "U+09E7", "U+09E8", "U+09E9", "U+09EA", "U+09EB",
   "U+09EC", "U+09ED", "U+09EE", "U+09EF", "U+0A66", "U+0A67", "U+0A68",
   "U+0A69", "U+0A6A", "U+0A6B", "U+0A6C", "U+0A6D", "U+0A6E", "U+0A6F",
   "U+0AE6", "U+0AE7", "U+0AE8", "U+0AE9", "U+0AEA", "U+0AEB", "U+0AEC",
   "U+0AED", "U+0AEE", "U+0AEF", "U+0B66", "U+0B67", "U+0B68", "U+0B69",
   "U+0B6A", "U+0B6B", "U+0B6C", "U+0B6D", "U+0B6E", "U+0B6F", "U+0BE6",
   "U+0BE7", "U+0BE8", "U+0BE9", "U+0BEA", "U+0BEB", "U+0BEC", "U+0BED",
   "U+0BEE", "U+0BEF", "U+0C66", "U+0C67", "U+0C68", "U+0C69", "U+0C6A",
   "U+0C6B", "U+0C6C", "U+0C6D", "U+0C6E", "U+0C6F", "U+0CE6", "U+0CE7",
   "U+0CE8", "U+0CE9", "U+0CEA", "U+0CEB", "U+0CEC", "U+0CED", "U+0CEE",
   "U+0CEF", "U+0D66", "U+0D67", "U+0D68", "U+0D69", "U+0D6A", "U+0D6B",
   "U+0D6C", "U+0D6D", "U+0D6E", "U+0D6F", "U+0DE6", "U+0DE7", "U+0DE8",
   "U+0DE9", "U+0DEA", "U+0DEB", "U+0DEC", "U+0DED", "U+0DEE", "U+0DEF",
   "U+0E50", "U+0E51", "U+0E52", "U+0E53", "U+0E54", "U+0E55", "U+0E56",
   "U+0E57", "U+0E58", "U+0E59", "U+0ED0", "U+0ED1", "U+0ED2", "U+0ED3",
   "U+0ED4", "U+0ED5", "U+0ED6", "U+0ED7", "U+0ED8", "U+0ED9", "U+0F20",
   "U+0F21", "U+0F22", "U+0F23", "U+0F24", "U+0F25", "U+0F26", "U+0F27",
   "U+0F28", "U+0F29", "U+1040", "U+1041", "U+1042", "U+1043", "U+1044",
   "U+1045", "U+1046", "U+1047", "U+1048", "U+1049", "U+1090", "U+1091",
   "U+1092", "U+1093", "U+1094", "U+1095", "U+1096", "U+1097", "U+1098",
   "U+1099", "U+1369", "U+136A", "U+136B", "U+136C", "U+136D", "U+136E",
   "U+136F", "U+1370", "U+1371", "U+17E0", "U+17E1", "U+17E2", "U+17E3",
   "U+17E4", "U+17E5", "U+17E6", "U+17E7", "U+17E8", "U+17E9", "U+1810",
   "U+1811", "U+1812", "U+1813", "U+1814", "U+1815", "U+1816", "U+1817",
   "U+1818", "U+1819", "U+1946", "U+1947", "U+1948", "U+1949", "U+194A",
   "U+194B", "U+194C", "U+194D", "U+194E", "U+194F", "U+19D0", "U+19D1",
   "U+19D2", "U+19D3", "U+19D4", "U+19D5", "U+19D6", "U+19D7", "U+19D8",
   "U+19D9", "U+19DA", "U+1A80", "U+1A81", "U+1A82", "U+1A83", "U+1A84",
   "U+1A85", "U+1A86", "U+1A87", "U+1A88", "U+1A89", "U+1A90", "U+1A91",
   "U+1A92", "U+1A93", "U+1A94", "U+1A95", "U+1A96", "U+1A97", "U+1A98",
   "U+1A99", "U+1B50", "U+1B51", "U+1B52", "U+1B53", "U+1B54", "U+1B55",
   "U+1B56", "U+1B57", "U+1B58", "U+1B59", "U+1BB0", "U+1BB1", "U+1BB2",
   "U+1BB3", "U+1BB4", "U+1BB5", "U+1BB6", "U+1BB7", "U+1BB8", "U+1BB9",
   "U+1C40", "U+1C41", "U+1C42", "U+1C43", "U+1C44", "U+1C45", "U+1C46",
   "U+1C47", "U+1C48", "U+1C49", "U+1C50", "U+1C51", "U+1C52", "U+1C53",
   "U+1C54", "U+1C55", "U+1C56", "U+1C57", "U+1C58", "U+1C59", "U+2070",
   "U+2074", "U+2075", "U+2076", "U+2077", "U+2078", "U+2079", "U+2080",
   "U+2081", "U+2082", "U+2083", "U+2084", "U+2085", "U+2086", "U+2087",
   "U+2088", "U+2089", "U+2460", "U+2461", "U+2462", "U+2463", "U+2464",
   "U+2465", "U+2466", "U+2467", "U+2468", "U+2474", "U+2475", "U+2476",
   "U+2477", "U+2478", "U+2479", "U+247A", "U+247B", "U+247C", "U+2488",
   "U+2489", "U+248A", "U+248B", "U+248C", "U+248D", "U+248E", "U+248F",
   "U+2490", "U+24EA", "U+24F5", "U+24F6", "U+24F7", "U+24F8", "U+24F9",
   "U+24FA", "U+24FB", "U+24FC", "U+24FD", "U+24FF", "U+2776", "U+2777",
   "U+2778", "U+2779", "U+277A", "U+277B", "U+277C", "U+277D", "U+277E",
   "U+2780", "U+2781", "U+2782", "U+2783", "U+2784", "U+2785", "U+2786",
   "U+2787", "U+2788", "U+278A", "U+278B", "U+278C", "U+278D", "U+278E",
   "U+278F", "U+2790", "U+2791", "U+2792", "U+A620", "U+A621", "U+A622",
   "U+A623", "U+A624", "U+A625", "U+A626", "U+A627", "U+A628", "U+A629",
   "U+A8D0", "U+A8D1", "U+A8D2", "U+A8D3", "U+A8D4", "U+A8D5", "U+A8D6",
   "U+A8D7", "U+A8D8", "U+A8D9", "U+A900", "U+A901", "U+A902", "U+A903",
   "U+A904", "U+A905", "U+A906", "U+A907", "U+A908", "U+A909", "U+A9D0",
   "U+A9D1", "U+A9D2", "U+A9D3", "U+A9D4", "U+A9D5", "U+A9D6", "U+A9D7",
   "U+A9D8", "U+A9D9", "U+A9F0", "U+A9F1", "U+A9F2", "U+A9F3", "U+A9F4",
   "U+A9F5", "U+A9F6", "U+A9F7", "U+A9F8", "U+A9F9", "U+AA50", "U+AA51",
   "U+AA52", "U+AA53", "U+AA54", "U+AA55", "U+AA56", "U+AA57", "U+AA58",
   "U+AA59", "U+ABF0", "U+ABF1", "U+ABF2", "U+ABF3", "U+ABF4", "U+ABF5",
   "U+ABF6", "U+ABF7", "U+ABF8", "U+ABF9", "U+FF10", "U+FF11", "U+FF12",
   "U+FF13", "U+FF14", "U+FF15", "U+FF16", "U+FF17", "U+FF18", "U+FF19",
   "U+104A0", "U+104A1", "U+104A2", "U+104A3", "U+104A4", "U+104A5",
   "U+104A6", "U+104A7", "U+104A8", "U+104A9", "U+10A40", "U+10A41",
   "U+10A42", "U+10A43", "U+10D30", "U+10D31", "U+10D32", "U+10D33",
   "U+10D34", "U+10D35", "U+10D36", "U+10D37", "U+10D38", "U+10D39",
   "U+10E60", "U+10E61", "U+10E62", "U+10E63", "U+10E64", "U+10E65",
   "U+10E66", "U+10E67", "U+10E68", "U+11052", "U+11053", "U+11054",
   "U+11055", "U+11056", "U+11057", "U+11058", "U+11059", "U+1105A",
   "U+11066", "U+11067", "U+11068", "U+11069", "U+1106A", "U+1106B",
   "U+1106C", "U+1106D", "U+1106E", "U+1106F", "U+110F0", "U+110F1",
   "U+110F2", "U+110F3", "U+110F4", "U+110F5", "U+110F6", "U+110F7",
   "U+110F8", "U+110F9", "U+11136", "U+11137", "U+11138", "U+11139",
   "U+1113A", "U+1113B", "U+1113C", "U+1113D", "U+1113E", "U+1113F",
   "U+111D0", "U+111D1", "U+111D2", "U+111D3", "U+111D4", "U+111D5",
   "U+111D6", "U+111D7", "U+111D8", "U+111D9", "U+112F0", "U+112F1",
   "U+112F2", "U+112F3", "U+112F4", "U+112F5", "U+112F6", "U+112F7",
   "U+112F8", "U+112F9", "U+11450", "U+11451", "U+11452", "U+11453",
   "U+11454", "U+11455", "U+11456", "U+11457", "U+11458", "U+11459",
   "U+114D0", "U+114D1", "U+114D2", "U+114D3", "U+114D4", "U+114D5",
   "U+114D6", "U+114D7", "U+114D8", "U+114D9", "U+11650", "U+11651",
   "U+11652", "U+11653", "U+11654", "U+11655", "U+11656", "U+11657",
   "U+11658", "U+11659", "U+116C0", "U+116C1", "U+116C2", "U+116C3",
   "U+116C4", "U+116C5", "U+116C6", "U+116C7", "U+116C8", "U+116C9",
   "U+11730", "U+11731", "U+11732", "U+11733", "U+11734", "U+11735",
   "U+11736", "U+11737", "U+11738", "U+11739", "U+118E0", "U+118E1",
   "U+118E2", "U+118E3", "U+118E4", "U+118E5", "U+118E6", "U+118E7",
   "U+118E8", "U+118E9", "U+11950", "U+11951", "U+11952", "U+11953",
   "U+11954", "U+11955", "U+11956", "U+11957", "U+11958", "U+11959",
   "U+11C50", "U+11C51", "U+11C52", "U+11C53", "U+11C54", "U+11C55",
   "U+11C56", "U+11C57", "U+11C58", "U+11C59", "U+11D50", "U+11D51",
   "U+11D52", "U+11D53", "U+11D54", "U+11D55", "U+11D56", "U+11D57",
   "U+11D58", "U+11D59", "U+11DA0", "U+11DA1", "U+11DA2", "U+11DA3",
   "U+11DA4", "U+11DA5", "U+11DA6", "U+11DA7", "U+11DA8", "U+11DA9",
   "U+16A60", "U+16A61", "U+16A62", "U+16A63", "U+16A64", "U+16A65",
   "U+16A66", "U+16A67", "U+16A68", "U+16A69", "U+16AC0", "U+16AC1",
   "U+16AC2", "U+16AC3", "U+16AC4", "U+16AC5", "U+16AC6", "U+16AC7",
   "U+16AC8", "U+16AC9", "U+16B50", "U+16B51", "U+16B52", "U+16B53",
   "U+16B54", "U+16B55", "U+16B56", "U+16B57", "U+16B58", "U+16B59",
   "U+1D7CE", "U+1D7CF", "U+1D7D0", "U+1D7D1", "U+1D7D2", "U+1D7D3",
   "U+1D7D4", "U+1D7D5", "U+1D7D6", "U+1D7D7", "U+1D7D8", "U+1D7D9",
   "U+1D7DA", "U+1D7DB", "U+1D7DC", "U+1D7DD", "U+1D7DE", "U+1D7DF",
   "U+1D7E0", "U+1D7E1", "U+1D7E2", "U+1D7E3", "U+1D7E4", "U+1D7E5",
   "U+1D7E6", "U+1D7E7", "U+1D7E8", "U+1D7E9", "U+1D7EA", "U+1D7EB",
   "U+1D7EC", "U+1D7ED", "U+1D7EE", "U+1D7EF", "U+1D7F0", "U+1D7F1",
   "U+1D7F2", "U+1D7F3", "U+1D7F4", "U+1D7F5", "U+1D7F6", "U+1D7F7",
   "U+1D7F8", "U+1D7F9", "U+1D7FA", "U+1D7FB", "U+1D7FC", "U+1D7FD",
   "U+1D7FE", "U+1D7FF", "U+1E140", "U+1E141", "U+1E142", "U+1E143",
   "U+1E144", "U+1E145", "U+1E146", "U+1E147", "U+1E148", "U+1E149",
   "U+1E2F0", "U+1E2F1", "U+1E2F2", "U+1E2F3", "U+1E2F4", "U+1E2F5",
   "U+1E2F6", "U+1E2F7", "U+1E2F8", "U+1E2F9", "U+1E950", "U+1E951",
   "U+1E952", "U+1E953", "U+1E954", "U+1E955", "U+1E956", "U+1E957",
   "U+1E958", "U+1E959", "U+1F100", "U+1F101", "U+1F102", "U+1F103",
   "U+1F104", "U+1F105", "U+1F106", "U+1F107", "U+1F108", "U+1F109",
   "U+1F10A", "U+1FBF0", "U+1FBF1", "U+1FBF2", "U+1FBF3", "U+1FBF4",
   "U+1FBF5", "U+1FBF6", "U+1FBF7", "U+1FBF8", "U+1FBF9"}

\* those of them that are no decimal digits (superscripts, circled digits,
\* ...): str.isdigit() is true of them, the pattern \d does not match them
NonDecimalDigits ==
  {"U+00B2", "U+00B3", "U+00B9", "U+1369", "U+136A", "U+136B", "U+136C",
   "U+136D", "U+136E", "U+136F", "U+1370", "U+1371", "U+19DA", "U+2070",
   "U+2074", "U+2075", "U+2076", "U+2077", "U+2078", "U+2079", "U+2080",
   "U+2081", "U+2082", "U+2083", "U+2084", "U+2085", "U+2086", "U+2087",
   "U+2088", "U+2089", "U+2460", "U+2461", "U+2462", "U+2463", "U+2464",
   "U+2465", "U+2466", "U+2467", "U+2468", "U+2474", "U+2475", "U+2476",
   "U+2477", "U+2478", "U+2479", "U+247A", "U+247B", "U+247C", "U+2488",
   "U+2489", "U+248A", "U+248B", "U+248C", "U+248D", "U+248E", "U+248F",
   "U+2490", "U+24EA", "U+24F5", "U+24F6", "U+24F7", "U+24F8", "U+24F9",
   "U+24FA", "U+24FB", "U+24FC", "U+24FD", "U+24FF", "U+2776", "U+2777",
   "U+2778", "U+2779", "U+277A", "U+277B", "U+277C", "U+277D", "U+277E",
   "U+2780", "U+2781", "U+2782", "U+2783", "U+2784", "U+2785", "U+2786",
   "U+2787", "U+2788", "U+278A", "U+278B", "U+278C", "U+278D", "U+278E",
   "U+278F", "U+2790", "U+2791", "U+2792", "U+10A40", "U+10A41", "U+10A42",
   "U+10A43", "U+10E60", "U+10E61", "U+10E62", "U+10E63", "U+10E64",
   "U+10E65", "U+10E66", "U+10E67", "U+10E68", "U+11052", "U+11053",
   "U+11054", "U+11055", "U+11056", "U+11057", "U+11058", "U+11059",
   "U+1105A", "U+1F100", "U+1F101", "U+1F102", "U+1F103", "U+1F104",
   "U+1F105", "U+1F106", "U+1F107", "U+1F108", "U+1F109", "U+1F10A"}

Digits == AsciiDigits \cup UnicodeDigits

MinOf(S) == CHOOSE x \in S : \A y \in S : x <= y
MaxOf(S) == CHOOSE x \in S : \A y \in S : y <= x

\* the elements of a set of numbers in increasing order
Sorted(S) ==
  [k \in 1..Cardinality(S) |-> CHOOSE e \in S : Cardinality({x \in S : x < e}) = k - 1]

\* ''.join(ss)
RECURSIVE ConcatRange(_, _, _)
ConcatRange(ss, lo, hi) ==
  IF lo > hi THEN <<>>
  ELSE IF lo = hi THEN ss[lo]
  ELSE ConcatRange(ss, lo, (lo + hi) \div 2) \o ConcatRange(ss, (lo + hi) \div 2 + 1, hi)

Concat(ss) == ConcatRange(ss, 1, Len(ss))

\* the positions of the characters str.strip() keeps from
Inked(s) == {i \in 1..Len(s) : s[i] \notin Whitespace}

\* str.strip()
Strip(s) == IF Inked(s) = {} THEN <<>> ELSE SubSeq(s, MinOf(Inked(s)), MaxOf(Inked(s)))

\* s[i:j] of Python, 0-based, clipped to the string
Slice(s, i, j) ==
  LET hi == IF j > Len(s) THEN Len(s) ELSE j
  IN IF i >= hi THEN <<>> ELSE SubSeq(s, i + 1, hi)

StartsWith(s, p) == Len(s) >= Len(p) /\ SubSeq(s, 1, Len(p)) = p

\* str.isdigit: non-empty and every character a digit
IsDigit(s) == s # <<>> /\ \A i \in 1..Len(s) : s[i] \in Digits

\* str.splitlines: split at the line boundaries, no empty last line. A
\* boundary ends at i unless it is the "\r" of a "\r\n"
BreakEnds(s) ==
  {i \in 1..Len(s) : s[i] \in LineBreaks /\ ~(s[i] = CR /\ i < Len(s) /\ s[i + 1] = NL)}

BreakStart(s, e) == IF s[e] = NL /\ e > 1 /\ s[e - 1] = CR THEN e - 1 ELSE e

SplitLines(s) ==
  LET ends == Sorted(BreakEnds(s))
      from(k) == IF k = 1 THEN 1 ELSE ends[k - 1] + 1
      last == IF ends = <<>> THEN 0 ELSE ends[Len(ends)]
  IN [k \in 1..Len(ends) |-> SubSeq(s, from(k), BreakStart(s, ends[k]) - 1)]
       \o (IF last < Len(s) THEN <<SubSeq(s, last + 1, Len(s))>> ELSE <<>>)

RECURSIVE SelectNonEmpty(_)
SelectNonEmpty(ls) ==
  IF ls = <<>> THEN <<>>
  ELSE IF Head(ls) = <<>> THEN SelectNonEmpty(Tail(ls))
  ELSE <<Head(ls)>> \o SelectNonEmpty(Tail(ls))

\* html.escape
EscapeChar(c) ==
  CASE c = "&" -> <<"&", "a", "m", "p", ";">>
    [] c = "<" -> <<"&", "l", "t", ";">>
    [] c = ">" -> <<"&", "g", "t", ";">>
    [] c = "\"" -> <<"&", "q", "u", "o", "t", ";">>
    [] c = "'" -> <<"&", "#", "x", "2", "7", ";">>
    [] OTHER -> <<c>>

HtmlEscape(s) == Concat([i \in 1..Len(s) |-> EscapeChar(s[i])])

-----------------------------------------------------------------------------
(* render_report.py: parse_ai_summary *)

\* line.startswith(('- ', '* '))
IsMarkerBullet(line) == StartsWith(line, <<"-", " ">>) \/ StartsWith(line, <<"*", " ">>)

\* line[:2].isdigit() and line[2:3] in {'.', ')'}
IsNumberedBullet(line) ==
  /\ IsDigit(Slice(line, 0, 2))
  /\ Slice(line, 2, 3) \in {<<".">>, <<")">>}

\* lines = [line.strip() for line in summary.splitlines() if line.strip()]
RECURSIVE StripAll(_)
StripAll(ls) ==
  IF ls = <<>> THEN <<>> ELSE <<Strip(Head(ls))>> \o StripAll(Tail(ls))

SummaryLines(text) == SelectNonEmpty(StripAll(SplitLines(text)))

RECURSIVE Classify(_)
Classify(lines) ==
  IF lines = <<>> THEN [bullets |-> <<>>, paragraphs |-> <<>>]
  ELSE LET line == Head(lines)
           rest == Classify(Tail(lines))
       IN IF IsMarkerBullet(line)
            THEN [rest EXCEPT !.bullets = <<Strip(Slice(line, 2, Len(line)))>> \o @]
          ELSE IF IsNumberedBullet(line)
            THEN [rest EXCEPT !.bullets = <<Strip(Slice(line, 3, Len(line)))>> \o @]
          ELSE [rest EXCEPT !.paragraphs = <<line>> \o @]

\* aiSummary is a JSON string or null
parse_ai_summary(s) ==
  IF ~Truthy(s) THEN [bullets |-> <<>>, paragraphs |-> <<>>]
  ELSE Classify(SummaryLines(s.v))

-----------------------------------------------------------------------------
(* render_report.py: the AI Highlights block of build_account_html *)

NoHighlights == Chars("No highlights available.")

RECURSIVE EscapeAll(_)
EscapeAll(items) ==
  IF items = <<>> THEN <<>> ELSE <<HtmlEscape(Head(items))>> \o EscapeAll(Tail(items))

RECURSIVE ParagraphBlocks(_)
ParagraphBlocks(ps) ==
  IF ps = <<>> THEN <<>>
  ELSE <<[tag |-> "p", text |-> HtmlEscape(Head(ps))]>> \o ParagraphBlocks(Tail(ps))

\* summary_parts: one <ul> of the bullets when there are any, one <p> per
\* paragraph, and the fixed message when both are empty
HighlightsHtml(p) ==
  LET ul == IF p.bullets # <<>>
              THEN <<[tag |-> "ul", items |-> EscapeAll(p.bullets)]>> ELSE <<>>
      parts == ul \o ParagraphBlocks(p.paragraphs)
  IN IF parts = <<>> THEN <<[tag |-> "p", text |-> NoHighlights]>> ELSE parts

build_account_highlights(s) == HighlightsHtml(parse_ai_summary(s))

-----------------------------------------------------------------------------
(* render_report.py: the AI Highlights lines of render_text *)

AsciiLetters ==
  {Chars("abcdefghijklmnopqrstuvwxyzABCDEFGHIJKLMNOPQRSTUVWXYZ")[i] : i \in 1..52}

\* textwrap: TextWrapper._whitespace, the characters it treats as blanks
WrapBlanks == {TAB, NL, "U+000B", "\f", CR, " "}

\* the code point of a character written "U+XXXX", 0 for the others
RECURSIVE HexNumber(_, _)
HexNumber(str, acc) ==
  IF str = "" THEN acc
  ELSE LET value == (CHOOSE i \in 1..16 : Chars("0123456789ABCDEF")[i] = SubSeq(str, 1, 1)) - 1
       IN HexNumber(SubSeq(str, 2, Len(str)), 16 * acc + value)

CodePoint(c) ==
  IF Len(c) > 2 /\ SubSeq(c, 1, 2) = "U+" THEN HexNumber(SubSeq(c, 3, Len(c)), 0) ELSE 0

\* the ranges of code points above ASCII that the re module's \w matches
\* (str.isalnum)
WordRanges ==
  <<
   <<170, 170>>, <<178, 179>>, <<181, 181>>, <<185, 186>>, <<188, 190>>,
   <<192, 214>>, <<216, 246>>, <<248, 705>>, <<710, 721>>, <<736, 740>>,
   <<748, 748>>, <<750, 750>>, <<880, 884>>, <<886, 887>>, <<890, 893>>,
   <<895, 895>>, <<902, 902>>, <<904, 906>>, <<908, 908>>, <<910, 929>>,
   <<931, 1013>>, <<1015, 1153>>, <<1162, 1327>>, <<1329, 1366>>,
   <<1369, 1369>>, <<1376, 1416>>, <<1488, 1514>>, <<1519, 1522>>,
   <<1568, 1610>>, <<1632, 1641>>, <<1646, 1647>>, <<1649, 1747>>,
   <<1749, 1749>>, <<1765, 1766>>, <<1774, 1788>>, <<1791, 1791>>,
   <<1808, 1808>>, <<1810, 1839>>, <<1869, 1957>>, <<1969, 1969>>,
   <<1984, 2026>>, <<2036, 2037>>, <<2042, 2042>>, <<2048, 2069>>,
   <<2074, 2074>>, <<2084, 2084>>, <<2088, 2088>>, <<2112, 2136>>,
   <<2144, 2154>>, <<2160, 2183>>, <<2185, 2190>>, <<2208, 2249>>,
   <<2308, 2361>>, <<2365, 2365>>, <<2384, 2384>>, <<2392, 2401>>,
   <<2406, 2415>>, <<2417, 2432>>, <<2437, 2444>>, <<2447, 2448>>,
   <<2451, 2472>>, <<2474, 2480>>, <<2482, 2482>>, <<2486, 2489>>,
   <<2493, 2493>>, <<2510, 2510>>, <<2524, 2525>>, <<2527, 2529>>,
   <<2534, 2545>>, <<2548, 2553>>, <<2556, 2556>>, <<2565, 2570>>,
   <<2575, 2576>>, <<2579, 2600>>, <<2602, 2608>>, <<2610, 2611>>,
   <<2613, 2614>>, <<2616, 2617>>, <<2649, 2652>>, <<2654, 2654>>,
   <<2662, 2671>>, <<2674, 2676>>, <<2693, 2701>>, <<2703, 2705>>,
   <<2707, 2728>>, <<2730, 2736>>, <<2738, 2739>>, <<2741, 2745>>,
   <<2749, 2749>>, <<2768, 2768>>, <<2784, 2785>>, <<2790, 2799>>,
   <<2809, 2809>>, <<2821, 2828>>, <<2831, 2832>>, <<2835, 2856>>,
   <<2858, 2864>>, <<2866, 2867>>, <<2869, 2873>>, <<2877, 2877>>,
   <<2908, 2909>>, <<2911, 2913>>, <<2918, 2927>>, <<2929, 2935>>,
   <<2947, 2947>>, <<2949, 2954>>, <<2958, 2960>>, <<2962, 2965>>,
   <<2969, 2970>>, <<2972, 2972>>, <<2974, 2975>>, <<2979, 2980>>,
   <<2984, 2986>>, <<2990, 3001>>, <<3024, 3024>>, <<3046, 3058>>,
   <<3077, 3084>>, <<3086, 3088>>, <<3090, 3112>>, <<3114, 3129>>,
   <<3133, 3133>>, <<3160, 3162>>, <<3165, 3165>>, <<3168, 3169>>,
   <<3174, 3183>>, <<3192, 3198>>, <<3200, 3200>>, <<3205, 3212>>,
   <<3214, 3216>>, <<3218, 3240>>, <<3242, 3251>>, <<3253, 3257>>,
   <<3261, 3261>>, <<3293, 3294>>, <<3296, 3297>>, <<3302, 3311>>,
   <<3313, 3314>>, <<3332, 3340>>, <<3342, 3344>>, <<3346, 3386>>,
   <<3389, 3389>>, <<3406, 3406>>, <<3412, 3414>>, <<3416, 3425>>,
   <<3430, 3448>>, <<3450, 3455>>, <<3461, 3478>>, <<3482, 3505>>,
   <<3507, 3515>>, <<3517, 3517>>, <<3520, 3526>>, <<3558, 3567>>,
   <<3585, 3632>>, <<3634, 3635>>, <<3648, 3654>>, <<3664, 3673>>,
   <<3713, 3714>>, <<3716, 3716>>, <<3718, 3722>>, <<3724, 3747>>,
   <<3749, 3749>>, <<3751, 3760>>, <<3762, 3763>>, <<3773, 3773>>,
   <<3776, 3780>>, <<3782, 3782>>, <<3792, 3801>>, <<3804, 3807>>,
   <<3840, 3840>>, <<3872, 3891>>, <<3904, 3911>>, <<3913, 3948>>,
   <<3976, 3980>>, <<4096, 4138>>, <<4159, 4169>>, <<4176, 4181>>,
   <<4186, 4189>>, <<4193, 4193>>, <<4197, 4198>>, <<4206, 4208>>,
   <<4213, 4225>>, <<4238, 4238>>, <<4240, 4249>>, <<4256, 4293>>,
   <<4295, 4295>>, <<4301, 4301>>, <<4304, 4346>>, <<4348, 4680>>,
   <<4682, 4685>>, <<4688, 4694>>, <<4696, 4696>>, <<4698, 4701>>,
   <<4704, 4744>>, <<4746, 4749>>, <<4752, 4784>>, <<4786, 4789>>,
   <<4792, 4798>>, <<4800, 4800>>, <<4802, 4805>>, <<4808, 4822>>,
   <<4824, 4880>>, <<4882, 4885>>, <<4888, 4954>>, <<4969, 4988>>,
   <<4992, 5007>>, <<5024, 5109>>, <<5112, 5117>>, <<5121, 5740>>,
   <<5743, 5759>>, <<5761, 5786>>, <<5792, 5866>>, <<5870, 5880>>,
   <<5888, 5905>>, <<5919, 5937>>, <<5952, 5969>>, <<5984, 5996>>,
   <<5998, 6000>>, <<6016, 6067>>, <<6103, 6103>>, <<6108, 6108>>,
   <<6112, 6121>>, <<6128, 6137>>, <<6160, 6169>>, <<6176, 6264>>,
   <<6272, 6276>>, <<6279, 6312>>, <<6314, 6314>>, <<6320, 6389>>,
   <<6400, 6430>>, <<6470, 6509>>, <<6512, 6516>>, <<6528, 6571>>,
   <<6576, 6601>>, <<6608, 6618>>, <<6656, 6678>>, <<6688, 6740>>,
   <<6784, 6793>>, <<6800, 6809>>, <<6823, 6823>>, <<6917, 6963>>,
   <<6981, 6988>>, <<6992, 7001>>, <<7043, 7072>>, <<7086, 7141>>,
   <<7168, 7203>>, <<7232, 7241>>, <<7245, 7293>>, <<7296, 7304>>,
   <<7312, 7354>>, <<7357, 7359>>, <<7401, 7404>>, <<7406, 7411>>,
   <<7413, 7414>>, <<7418, 7418>>, <<7424, 7615>>, <<7680, 7957>>,
   <<7960, 7965>>, <<7968, 8005>>, <<8008, 8013>>, <<8016, 8023>>,
   <<8025, 8025>>, <<8027, 8027>>, <<8029, 8029>>, <<8031, 8061>>,
   <<8064, 8116>>, <<8118, 8124>>, <<8126, 8126>>, <<8130, 8132>>,
   <<8134, 8140>>, <<8144, 8147>>, <<8150, 8155>>, <<8160, 8172>>,
   <<8178, 8180>>, <<8182, 8188>>, <<8304, 8305>>, <<8308, 8313>>,
   <<8319, 8329>>, <<8336, 8348>>, <<8450, 8450>>, <<8455, 8455>>,
   <<8458, 8467>>, <<8469, 8469>>, <<8473, 8477>>, <<8484, 8484>>,
   <<8486, 8486>>, <<8488, 8488>>, <<8490, 8493>>, <<8495, 8505>>,
   <<8508, 8511>>, <<8517, 8521>>, <<8526, 8526>>, <<8528, 8585>>,
   <<9312, 9371>>, <<9450, 9471>>, <<10102, 10131>>, <<11264, 11492>>,
   <<11499, 11502>>, <<11506, 11507>>, <<11517, 11517>>, <<11520, 11557>>,
   <<11559, 11559>>, <<11565, 11565>>, <<11568, 11623>>, <<11631, 11631>>,
   <<11648, 11670>>, <<11680, 11686>>, <<11688, 11694>>, <<11696, 11702>>,
   <<11704, 11710>>, <<11712, 11718>>, <<11720, 11726>>, <<11728, 11734>>,
   <<11736, 11742>>, <<11823, 11823>>, <<12293, 12295>>, <<12321, 12329>>,
   <<12337, 12341>>, <<12344, 12348>>, <<12353, 12438>>, <<12445, 12447>>,
   <<12449, 12538>>, <<12540, 12543>>, <<12549, 12591>>, <<12593, 12686>>,
   <<12690, 12693>>, <<12704, 12735>>, <<12784, 12799>>, <<12832, 12841>>,
   <<12872, 12879>>, <<12881, 12895>>, <<12928, 12937>>, <<12977, 12991>>,
   <<13312, 19903>>, <<19968, 42124>>, <<42192, 42237>>, <<42240, 42508>>,
   <<42512, 42539>>, <<42560, 42606>>, <<42623, 42653>>, <<42656, 42735>>,
   <<42775, 42783>>, <<42786, 42888>>, <<42891, 42954>>, <<42960, 42961>>,
   <<42963, 42963>>, <<42965, 42969>>, <<42994, 43009>>, <<43011, 43013>>,
   <<43015, 43018>>, <<43020, 43042>>, <<43056, 43061>>, <<43072, 43123>>,
   <<43138, 43187>>, <<43216, 43225>>, <<43250, 43255>>, <<43259, 43259>>,
   <<43261, 43262>>, <<43264, 43301>>, <<43312, 43334>>, <<43360, 43388>>,
   <<43396, 43442>>, <<43471, 43481>>, <<43488, 43492>>, <<43494, 43518>>,
   <<43520, 43560>>, <<43584, 43586>>, <<43588, 43595>>, <<43600, 43609>>,
   <<43616, 43638>>, <<43642, 43642>>, <<43646, 43695>>, <<43697, 43697>>,
   <<43701, 43702>>, <<43705, 43709>>, <<43712, 43712>>, <<43714, 43714>>,
   <<43739, 43741>>, <<43744, 43754>>, <<43762, 43764>>, <<43777, 43782>>,
   <<43785, 43790>>, <<43793, 43798>>, <<43808, 43814>>, <<43816, 43822>>,
   <<43824, 43866>>, <<43868, 43881>>, <<43888, 44002>>, <<44016, 44025>>,
   <<44032, 55203>>, <<55216, 55238>>, <<55243, 55291>>, <<63744, 64109>>,
   <<64112, 64217>>, <<64256, 64262>>, <<64275, 64279>>, <<64285, 64285>>,
   <<64287, 64296>>, <<64298, 64310>>, <<64312, 64316>>, <<64318, 64318>>,
   <<64320, 64321>>, <<64323, 64324>>, <<64326, 64433>>, <<64467, 64829>>,
   <<64848, 64911>>, <<64914, 64967>>, <<65008, 65019>>, <<65136, 65140>>,
   <<65142, 65276>>, <<65296, 65305>>, <<65313, 65338>>, <<65345, 65370>>,
   <<65382, 65470>>, <<65474, 65479>>, <<65482, 65487>>, <<65490, 65495>>,
   <<65498, 65500>>, <<65536, 65547>>, <<65549, 65574>>, <<65576, 65594>>,
   <<65596, 65597>>, <<65599, 65613>>, <<65616, 65629>>, <<65664, 65786>>,
   <<65799, 65843>>, <<65856, 65912>>, <<65930, 65931>>, <<66176, 66204>>,
   <<66208, 66256>>, <<66273, 66299>>, <<66304, 66339>>, <<66349, 66378>>,
   <<66384, 66421>>, <<66432, 66461>>, <<66464, 66499>>, <<66504, 66511>>,
   <<66513, 66517>>, <<66560, 66717>>, <<66720, 66729>>, <<66736, 66771>>,
   <<66776, 66811>>, <<66816, 66855>>, <<66864, 66915>>, <<66928, 66938>>,
   <<66940, 66954>>, <<66956, 66962>>, <<66964, 66965>>, <<66967, 66977>>,
   <<66979, 66993>>, <<66995, 67001>>, <<67003, 67004>>, <<67072, 67382>>,
   <<67392, 67413>>, <<67424, 67431>>, <<67456, 67461>>, <<67463, 67504>>,
   <<67506, 67514>>, <<67584, 67589>>, <<67592, 67592>>, <<67594, 67637>>,
   <<67639, 67640>>, <<67644, 67644>>, <<67647, 67669>>, <<67672, 67702>>,
   <<67705, 67742>>, <<67751, 67759>>, <<67808, 67826>>, <<67828, 67829>>,
   <<67835, 67867>>, <<67872, 67897>>, <<67968, 68023>>, <<68028, 68047>>,
   <<68050, 68096>>, <<68112, 68115>>, <<68117, 68119>>, <<68121, 68149>>,
   <<68160, 68168>>, <<68192, 68222>>, <<68224, 68255>>, <<68288, 68295>>,
   <<68297, 68324>>, <<68331, 68335>>, <<68352, 68405>>, <<68416, 68437>>,
   <<68440, 68466>>, <<68472, 68497>>, <<68521, 68527>>, <<68608, 68680>>,
   <<68736, 68786>>, <<68800, 68850>>, <<68858, 68899>>, <<68912, 68921>>,
   <<69216, 69246>>, <<69248, 69289>>, <<69296, 69297>>, <<69376, 69415>>,
   <<69424, 69445>>, <<69457, 69460>>, <<69488, 69505>>, <<69552, 69579>>,
   <<69600, 69622>>, <<69635, 69687>>, <<69714, 69743>>, <<69745, 69746>>,
   <<69749, 69749>>, <<69763, 69807>>, <<69840, 69864>>, <<69872, 69881>>,
   <<69891, 69926>>, <<69942, 69951>>, <<69956, 69956>>, <<69959, 69959>>,
   <<69968, 70002>>, <<70006, 70006>>, <<70019, 70066>>, <<70081, 70084>>,
   <<70096, 70106>>, <<70108, 70108>>, <<70113, 70132>>, <<70144, 70161>>,
   <<70163, 70187>>, <<70272, 70278>>, <<70280, 70280>>, <<70282, 70285>>,
   <<70287, 70301>>, <<70303, 70312>>, <<70320, 70366>>, <<70384, 70393>>,
   <<70405, 70412>>, <<70415, 70416>>, <<70419, 70440>>, <<70442, 70448>>,
   <<70450, 70451>>, <<70453, 70457>>, <<70461, 70461>>, <<70480, 70480>>,
   <<70493, 70497>>, <<70656, 70708>>, <<70727, 70730>>, <<70736, 70745>>,
   <<70751, 70753>>, <<70784, 70831>>, <<70852, 70853>>, <<70855, 70855>>,
   <<70864, 70873>>, <<71040, 71086>>, <<71128, 71131>>, <<71168, 71215>>,
   <<71236, 71236>>, <<71248, 71257>>, <<71296, 71338>>, <<71352, 71352>>,
   <<71360, 71369>>, <<71424, 71450>>, <<71472, 71483>>, <<71488, 71494>>,
   <<71680, 71723>>, <<71840, 71922>>, <<71935, 71942>>, <<71945, 71945>>,
   <<71948, 71955>>, <<71957, 71958>>, <<71960, 71983>>, <<71999, 71999>>,
   <<72001, 72001>>, <<72016, 72025>>, <<72096, 72103>>, <<72106, 72144>>,
   <<72161, 72161>>, <<72163, 72163>>, <<72192, 72192>>, <<72203, 72242>>,
   <<72250, 72250>>, <<72272, 72272>>, <<72284, 72329>>, <<72349, 72349>>,
   <<72368, 72440>>, <<72704, 72712>>, <<72714, 72750>>, <<72768, 72768>>,
   <<72784, 72812>>, <<72818, 72847>>, <<72960, 72966>>, <<72968, 72969>>,
   <<72971, 73008>>, <<73030, 73030>>, <<73040, 73049>>, <<73056, 73061>>,
   <<73063, 73064>>, <<73066, 73097>>, <<73112, 73112>>, <<73120, 73129>>,
   <<73440, 73458>>, <<73648, 73648>>, <<73664, 73684>>, <<73728, 74649>>,
   <<74752, 74862>>, <<74880, 75075>>, <<77712, 77808>>, <<77824, 78894>>,
   <<82944, 83526>>, <<92160, 92728>>, <<92736, 92766>>, <<92768, 92777>>,
   <<92784, 92862>>, <<92864, 92873>>, <<92880, 92909>>, <<92928, 92975>>,
   <<92992, 92995>>, <<93008, 93017>>, <<93019, 93025>>, <<93027, 93047>>,
   <<93053, 93071>>, <<93760, 93846>>, <<93952, 94026>>, <<94032, 94032>>,
   <<94099, 94111>>, <<94176, 94177>>, <<94179, 94179>>, <<94208, 100343>>,
   <<100352, 101589>>, <<101632, 101640>>, <<110576, 110579>>,
   <<110581, 110587>>, <<110589, 110590>>, <<110592, 110882>>,
   <<110928, 110930>>, <<110948, 110951>>, <<110960, 111355>>,
   <<113664, 113770>>, <<113776, 113788>>, <<113792, 113800>>,
   <<113808, 113817>>, <<119520, 119539>>, <<119648, 119672>>,
   <<119808, 119892>>, <<119894, 119964>>, <<119966, 119967>>,
   <<119970, 119970>>, <<119973, 119974>>, <<119977, 119980>>,
   <<119982, 119993>>, <<119995, 119995>>, <<119997, 120003>>,
   <<120005, 120069>>, <<120071, 120074>>, <<120077, 120084>>,
   <<120086, 120092>>, <<120094, 120121>>, <<120123, 120126>>,
   <<120128, 120132>>, <<120134, 120134>>, <<120138, 120144>>,
   <<120146, 120485>>, <<120488, 120512>>, <<120514, 120538>>,
   <<120540, 120570>>, <<120572, 120596>>, <<120598, 120628>>,
   <<120630, 120654>>, <<120656, 120686>>, <<120688, 120712>>,
   <<120714, 120744>>, <<120746, 120770>>, <<120772, 120779>>,
   <<120782, 120831>>, <<122624, 122654>>, <<123136, 123180>>,
   <<123191, 123197>>, <<123200, 123209>>, <<123214, 123214>>,
   <<123536, 123565>>, <<123584, 123627>>, <<123632, 123641>>,
   <<124896, 124902>>, <<124904, 124907>>, <<124909, 124910>>,
   <<124912, 124926>>, <<124928, 125124>>, <<125127, 125135>>,
   <<125184, 125251>>, <<125259, 125259>>, <<125264, 125273>>,
   <<126065, 126123>>, <<126125, 126127>>, <<126129, 126132>>,
   <<126209, 126253>>, <<126255, 126269>>, <<126464, 126467>>,
   <<126469, 126495>>, <<126497, 126498>>, <<126500, 126500>>,
   <<126503, 126503>>, <<126505, 126514>>, <<126516, 126519>>,
   <<126521, 126521>>, <<126523, 126523>>, <<126530, 126530>>,
   <<126535, 126535>>, <<126537, 126537>>, <<126539, 126539>>,
   <<126541, 126543>>, <<126545, 126546>>, <<126548, 126548>>,
   <<126551, 126551>>, <<126553, 126553>>, <<126555, 126555>>,
   <<126557, 126557>>, <<126559, 126559>>, <<126561, 126562>>,
   <<126564, 126564>>, <<126567, 126570>>, <<126572, 126578>>,
   <<126580, 126583>>, <<126585, 126588>>, <<126590, 126590>>,
   <<126592, 126601>>, <<126603, 126619>>, <<126625, 126627>>,
   <<126629, 126633>>, <<126635, 126651>>, <<127232, 127244>>,
   <<130032, 130041>>, <<131072, 173791>>, <<173824, 177976>>,
   <<177984, 178205>>, <<178208, 183969>>, <<183984, 191456>>,
   <<194560, 195101>>, <<196608, 201546>>
  >>

\* the pattern classes of TextWrapper.wordsep_re: \w, [^\d\W], [\w!"'&.,?]
WordChar(c) ==
  \/ c \in AsciiLetters \cup AsciiDigits \cup {"_"}
  \/ LET cp == CodePoint(c)
     IN cp > 0 /\ \E i \in 1..Len(WordRanges) : WordRanges[i][1] <= cp /\ cp <= WordRanges[i][2]
Letter(c) == WordChar(c) /\ c \notin Digits \ NonDecimalDigits
WordPunct(c) == WordChar(c) \/ c \in {"!", "\"", "'", "&", ".", ",", "?"}

\* str.expandtabs(8): a tab pads to the next multiple of eight columns; the
\* column starts again after "\n" and "\r" (and is a multiple of eight after
\* a tab)
ColumnStart(s, i) == MaxOf({0} \cup {j \in 1..(i - 1) : s[j] \in {TAB, NL, CR}})

ExpandTab(s, i) ==
  IF s[i] = TAB
    THEN [k \in 1..(8 - ((i - 1 - ColumnStart(s, i)) % 8)) |-> " "]
    ELSE <<s[i]>>

ExpandTabs(s) == Concat([i \in 1..Len(s) |-> ExpandTab(s, i)])

\* TextWrapper._munge_whitespace: tabs expanded, then every blank a space
Munge(s) ==
  LET e == ExpandTabs(s)
  IN [i \in 1..Len(e) |-> IF e[i] \in WrapBlanks THEN " " ELSE e[i]]

\* t[i], or no character outside the text
At(t, i) == IF i >= 1 /\ i <= Len(t) THEN t[i] ELSE ""

\* last index of the run of hyphens that starts at p
HyphenRunEnd(t, p) == MinOf({e \in p..Len(t) : At(t, e + 1) # "-"})

\* -{2,} (?=\w) at p: at least two hyphens, then a word character
DashesAt(t, p) ==
  /\ At(t, p) = "-"
  /\ HyphenRunEnd(t, p) > p
  /\ WordChar(At(t, HyphenRunEnd(t, p) + 1))

\* the hyphen at h ends a part of a hyphenated word:
\* (?<=lt{2}-) or (?<=lt-lt-) before, (?= lt -? lt) after
HyphenBreak(t, h) ==
  /\ At(t, h) = "-"
  /\ \/ Letter(At(t, h - 1)) /\ Letter(At(t, h - 2))
     \/ Letter(At(t, h - 1)) /\ At(t, h - 2) = "-" /\ Letter(At(t, h - 3))
  /\ Letter(At(t, h + 1))
  /\ \/ Letter(At(t, h + 2))
     \/ At(t, h + 2) = "-" /\ Letter(At(t, h + 3))

\* the word alternative of wordsep_re, from p with k characters taken: it
\* stops at a hyphen break, at the end of the word or before an em-dash
WordStop(t, p, k) ==
  \/ HyphenBreak(t, p + k)
  \/ p + k > Len(t)
  \/ t[p + k] \in WrapBlanks
  \/ WordPunct(t[p + k - 1]) /\ DashesAt(t, p + k)

\* the pattern is lazy: the shortest k that stops, in the blank-free run
\* that ends at e; the hyphen of a hyphen break belongs to the chunk. The
\* result is the last index of the chunk
WordEnd(t, p, e) ==
  LET End(k) == IF HyphenBreak(t, p + k) THEN p + k ELSE p + k - 1
  IN End(MinOf({j \in 1..(e - p + 1) : WordStop(t, p, j)}))

\* the chunk of a word that starts at p: an em-dash or a part of the word
ChunkEnd(t, p, e) ==
  IF WordPunct(At(t, p - 1)) /\ DashesAt(t, p) THEN HyphenRunEnd(t, p) ELSE WordEnd(t, p, e)

\* the chunks of the blank-free run from p to e
RECURSIVE WordChunks(_, _, _)
WordChunks(t, p, e) ==
  IF p > e THEN <<>>
  ELSE LET From(end) == <<SubSeq(t, p, end)>> \o WordChunks(t, end + 1, e)
       IN From(ChunkEnd(t, p, e))

\* where a run of blanks or a run of other characters starts
RunStarts(t) ==
  {p \in 1..Len(t) : p = 1 \/ ((t[p] \in WrapBlanks) # (t[p - 1] \in WrapBlanks))}

\* TextWrapper._split: the chunks of wordsep_re, ''.join(chunks) = text; a
\* run of blanks is one chunk
Chunks(t) ==
  LET starts == Sorted(RunStarts(t))
      end(k) == IF k = Len(starts) THEN Len(t) ELSE starts[k + 1] - 1
      run(k) == IF t[starts[k]] \in WrapBlanks
                  THEN <<SubSeq(t, starts[k], end(k))>>
                  ELSE WordChunks(t, starts[k], end(k))
  IN Concat([k \in 1..Len(starts) |-> run(k)])

\* the chunks that fit on the current line, and those left; no chunk is
\* empty, so at most width of them fit
Fill(chunks, width) ==
  LET most == IF Len(chunks) < width THEN Len(chunks) ELSE width
      n == MaxOf({k \in 0..most : Len(Concat(SubSeq(chunks, 1, k))) <= width})
  IN [line |-> SubSeq(chunks, 1, n),
      len |-> Len(Concat(SubSeq(chunks, 1, n))),
      rest |-> SubSeq(chunks, n + 1, Len(chunks))]

\* chunk.rfind('-', 0, n): 0-based index of the last hyphen among the first n
\* characters, -1 when there is none
RFindHyphen(chunk, n) ==
  LET hs == {i \in 1..n : i <= Len(chunk) /\ chunk[i] = "-"}
  IN IF hs = {} THEN 0 - 1 ELSE (CHOOSE i \in hs : \A j \in hs : j <= i) - 1

\* TextWrapper._handle_long_word: as much of the long chunk as fits, cut
\* after its last hyphen when non-hyphens come before it
LongWordCut(chunk, space_left) ==
  LET hyphen == RFindHyphen(chunk, space_left)
  IN IF /\ Len(chunk) > space_left
        /\ hyphen > 0
        /\ \E i \in 1..hyphen : chunk[i] # "-"
       THEN hyphen + 1 ELSE space_left

\* TextWrapper._wrap_chunks with drop_whitespace and break_long_words
RECURSIVE WrapChunks(_, _, _)
WrapChunks(chunks, lines, width) ==
  IF chunks = <<>> THEN lines
  ELSE LET start == IF Strip(Head(chunks)) = <<>> /\ lines # <<>>
                      THEN Tail(chunks) ELSE chunks
           f == Fill(start, width)
           long == f.rest # <<>> /\ Len(Head(f.rest)) > width
           cut == LongWordCut(Head(f.rest), width - f.len)
           line == IF long THEN Append(f.line, SubSeq(Head(f.rest), 1, cut)) ELSE f.line
           rest == IF long
                     THEN <<SubSeq(Head(f.rest), cut + 1, Len(Head(f.rest)))>> \o Tail(f.rest)
                     ELSE f.rest
           kept == IF line # <<>> /\ Strip(line[Len(line)]) = <<>>
                     THEN SubSeq(line, 1, Len(line) - 1) ELSE line
       IN WrapChunks(rest, IF kept # <<>> THEN Append(lines, Concat(kept)) ELSE lines, width)

\* textwrap.wrap(text, width)
Wrap(text, width) == WrapChunks(Chunks(Munge(text)), <<>>, width)

\* '\n'.join(ls)
JoinLines(ls) == Concat([i \in 1..Len(ls) |-> IF i = 1 THEN ls[i] ELSE <<NL>> \o ls[i]])

\* str.splitlines(True): the lines with their line boundaries
SplitKeepEnds(s) ==
  LET ends == Sorted(BreakEnds(s))
      from(k) == IF k = 1 THEN 1 ELSE ends[k - 1] + 1
      last == IF ends = <<>> THEN 0 ELSE ends[Len(ends)]
  IN [k \in 1..Len(ends) |-> SubSeq(s, from(k), ends[k])]
       \o (IF last < Len(s) THEN <<SubSeq(s, last + 1, Len(s))>> ELSE <<>>)

\* textwrap.indent(text, '  '): the prefix before every line that is not of
\* whitespace only
Indent(text) ==
  LET ls == SplitKeepEnds(text)
  IN Concat([k \in 1..Len(ls) |->
               IF Strip(ls[k]) = <<>> THEN ls[k] ELSE <<" ", " ">> \o ls[k]])

\* indent('\n'.join(wrapped) or item, '  ')
HighlightLine(item) ==
  LET OrItem(joined) == Indent(IF joined # <<>> THEN joined ELSE item)
  IN OrItem(JoinLines(Wrap(Strip(item), WrapWidth)))

RECURSIVE HighlightLines(_)
HighlightLines(items) ==
  IF items = <<>> THEN <<>>
  ELSE <<HighlightLine(Head(items))>> \o HighlightLines(Tail(items))

\* summary_lines = account['aiSummary'].splitlines() if account['aiSummary'] else []
text_highlights(s) ==
  LET summary_lines == IF Truthy(s) THEN SplitLines(s.v) ELSE <<>>
  IN IF summary_lines # <<>> THEN HighlightLines(summary_lines)
     ELSE <<Chars("  ") \o NoHighlights>>

-----------------------------------------------------------------------------
(* The summary specification: one aiSummary taken through parse_ai_summary, *)
(* the HTML block and the text lines.                                       *)

SummaryAlphabet == {"-", "*", " ", NL, CR, "2", ".", ")", "a"}

\* "- a\n- b\n2. c\nplain text"
ExampleSummary ==
  <<"-", " ", "a", NL, "-", " ", "b", NL, "2", ".", " ", "c", NL,
    "p", "l", "a", "i", "n", " ", "t", "e", "x", "t">>

BoundedTexts == UNION {[1..n -> SummaryAlphabet] : n \in 0..MaxLen}

SummaryInputs == {JNull} \cup {JStr(s) : s \in BoundedTexts \cup {ExampleSummary}}

ProcIdle ==
  /\ args = None /\ stdout = <<>> /\ stderr = <<>> /\ exit_code = NoExit

FetchIdle ==
  /\ api_key = None /\ file_read = FALSE /\ data = None
  /\ response = None /\ posts = 0 /\ redirects = 0

RenderIdle ==
  /\ payload = None /\ html_output = None /\ text_output = None
  /\ html_file = "untouched" /\ text_file = "untouched"

SummaryIdle ==
  /\ summary = None /\ parsed = None /\ summary_parts = None /\ summary_text = None

InitSummary ==
  /\ pc = "parse"
  /\ summary \in SummaryInputs
  /\ parsed = None /\ summary_parts = None /\ summary_text = None
  /\ input_file = None
  /\ ProcIdle /\ FetchIdle /\ RenderIdle

ParseSummary ==
  /\ pc = "parse"
  /\ parsed' = parse_ai_summary(summary)
  /\ pc' = "html"
  /\ UNCHANGED <<args, stdout, stderr, exit_code, input_file, fetchVars,
                 renderVars, summary, summary_parts, summary_text>>

BuildHighlights ==
  /\ pc = "html"
  /\ summary_parts' = build_account_highlights(summary)
  /\ pc' = "text"
  /\ UNCHANGED <<args, stdout, stderr, exit_code, input_file, fetchVars,
                 renderVars, summary, parsed, summary_text>>

TextHighlights ==
  /\ pc = "text"
  /\ summary_text' = text_highlights(summary)
  /\ pc' = "rendered"
  /\ UNCHANGED <<args, stdout, stderr, exit_code, input_file, fetchVars,
                 renderVars, summary, parsed, summary_parts>>

NextSummary == ParseSummary \/ BuildHighlights \/ TextHighlights

SpecSummary == InitSummary /\ [][NextSummary]_vars

-----------------------------------------------------------------------------
(* Process exit, shared by the two tools.  A line on standard error is the  *)
(* prefix the top-level handler puts before the message, and the message.   *)

FetcherPrefix == "AI summary renderer failed: "
RendererPrefix == "Report renderer failed: "

\* except Exception as exc: print(f'<prefix>{exc}', file=sys.stderr); sys.exit(1)
Caught(prefix, message) ==
  /\ stderr' = Append(stderr, [prefix |-> prefix, message |-> message])
  /\ exit_code' = 1
  /\ pc' = "exited"

\* raise SystemExit('<message>'): not an Exception, so the handler is passed
\* by; the interpreter prints the message alone and exits with status 1
SystemExitWith(message) ==
  /\ stderr' = Append(stderr, [prefix |-> "", message |-> message])
  /\ exit_code' = 1
  /\ pc' = "exited"

\* parser.parse_args() without a required flag, or with a flag or a
\* positional it does not know: argparse prints the usage and the error to
\* standard error and calls sys.exit(2), which the handler does not catch
\* either
ArgparseError ==
  /\ stderr' = Append(stderr, [prefix |-> "", message |-> "usage"])
  /\ exit_code' = 2
  /\ pc' = "exited"

\* parser.parse_args() with -h or --help: argparse prints the help, which
\* starts with the usage line, to standard output and calls sys.exit(0);
\* nothing else is done
ArgparseHelp ==
  /\ stdout' = Append(stdout, Chars("usage"))
  /\ exit_code' = 0
  /\ pc' = "exited"

\* main() returns: the process ends with status 0
ReturnFromMain ==
  /\ exit_code' = 0
  /\ pc' = "exited"

-----------------------------------------------------------------------------
(* ai_summary.py: the Summary Fetcher *)

\* the command line: --input given with a path, -h/--help given, an argument
\* the parser does not know given. The complete command line, and the ones
\* that differ from it in one respect
FetcherArgs ==
  LET command == [input |-> TRUE, help |-> FALSE, extra |-> FALSE]
  IN {command, [command EXCEPT !.input = FALSE],
      [command EXCEPT !.help = TRUE], [command EXCEPT !.extra = TRUE]}

\* the environment variable unset, set to the empty string, or set
ApiKeys == {JAbsent, JStr(<<>>), JStr(<<"k">>)}

PromptValues == {JAbsent, JNull, JStr(<<>>), EmptyObj, JStr(<<"p">>)}
ModelValues == {JAbsent, JStr(<<"m">>)}

\* what is at the --input path: no readable file, text that is not JSON, a
\* JSON value that is not an object, or an object with the two keys
FetcherFiles ==
  {[kind |-> "unreadable"], [kind |-> "notjson"],
   [kind |-> "json", value |-> JList(<<>>)]}
  \cup {[kind |-> "json", value |-> JObj([model |-> m, prompt |-> p])] :
          m \in ModelValues, p \in PromptValues}

PartTexts == {<<>>, <<" ">>, <<"a">>, <<"b", " ">>}
Parts == {[text |-> JAbsent]} \cup {[text |-> JStr(x)] : x \in PartTexts}
PartLists == UNION {[1..n -> Parts] : n \in 0..MaxParts}

\* a candidate without 'content', or with the parts of its content
Candidates == {[content |-> JAbsent]} \cup {[content |-> [parts |-> ps]] : ps \in PartLists}
CandidateLists ==
  {<<>>} \cup {<<c>> : c \in Candidates} \cup {<<c, d>> : c \in Candidates, d \in Candidates}

Bodies ==
  {[kind |-> "notjson"]}
  \cup {[kind |-> "json", value |-> JObj([candidates |-> c])] :
          c \in {JAbsent, JNull, EmptyObj} \cup {JList(l) : l \in CandidateLists}}

\* the bodies that come with a status: every body with 200, two with the
\* other statuses that have a body ("notjson" is also the empty body);
\* http.client reads no body from a 1xx, 204 or 304 response
StatusBodies(st) ==
  IF st = 200 THEN Bodies
  ELSE IF st \in 100..199 \cup {204, 304} THEN {[kind |-> "notjson"]}
  ELSE {[kind |-> "notjson"],
        \* a body with one candidate of one text part
        [kind |-> "json",
         value |-> JObj([candidates |->
                           JList(<<[content |->
                                      [parts |-> <<[text |-> JStr(<<"a">>)]>>]]>>)])]}

\* requests.post follows redirects (allow_redirects): a response with a
\* Location header and one of these statuses is answered with a new request
RedirectStatuses == {301, 302, 303, 307, 308}

\* a request of requests.post: it times out, the connection fails, or a
\* response comes back with a status, a body and, when location is TRUE, a
\* Location header. The statuses are informational, success, redirection
\* (300 and 304 never redirect, the other five do when a Location header
\* comes with them), client error and server error
Responses ==
  {[kind |-> "timeout"], [kind |-> "connection"]}
  \cup {[kind |-> "http", status |-> st, location |-> TRUE, body |-> [kind |-> "notjson"]] :
          st \in RedirectStatuses}
  \cup UNION {{[kind |-> "http", status |-> st, location |-> FALSE, body |-> b] :
                 b \in StatusBodies(st)} :
               st \in {102, 200, 204, 300, 301, 302, 303, 304, 307, 308, 404, 500}}

InitFetcher ==
  /\ pc = "start"
  /\ args \in FetcherArgs
  /\ api_key \in ApiKeys
  /\ input_file \in FetcherFiles
  /\ stdout = <<>> /\ stderr = <<>> /\ exit_code = NoExit
  /\ file_read = FALSE /\ data = None /\ response = None
  /\ posts = 0 /\ redirects = 0
  /\ RenderIdle /\ SummaryIdle

fetcherInputs == <<args, api_key, input_file>>

\* lines 13-15: parser.parse_args()
FetcherParseArgs ==
  /\ pc = "start"
  /\ IF args.help THEN ArgparseHelp /\ UNCHANGED stderr
     ELSE IF ~args.input \/ args.extra THEN ArgparseError /\ UNCHANGED stdout
     ELSE pc' = "getenv" /\ UNCHANGED <<stdout, stderr, exit_code>>
  /\ UNCHANGED <<fetcherInputs, file_read, data, response, posts,
                 redirects, renderVars, summaryVars>>

\* lines 17-19
CheckApiKey ==
  /\ pc = "getenv"
  /\ IF ~Truthy(api_key)
       THEN SystemExitWith("GOOGLE_AI_API_KEY environment variable is required")
       ELSE pc' = "read" /\ UNCHANGED <<stderr, exit_code>>
  /\ UNCHANGED <<fetcherInputs, stdout, file_read, data, response, posts,
                 redirects, renderVars, summaryVars>>

\* line 21: json.loads(Path(args.input).read_text(encoding='utf-8'))
ReadFetcherInput ==
  /\ pc = "read"
  /\ file_read' = TRUE
  /\ CASE input_file.kind = "unreadable" ->
            Caught(FetcherPrefix, "No such file or directory") /\ UNCHANGED data
       [] input_file.kind = "notjson" ->
            Caught(FetcherPrefix, "Expecting value") /\ UNCHANGED data
       [] OTHER ->
            data' = input_file.value /\ pc' = "prompt" /\ UNCHANGED <<stderr, exit_code>>
  /\ UNCHANGED <<fetcherInputs, stdout, response, posts, redirects,
                 renderVars, summaryVars>>

\* lines 22-25: data.get(...) needs an object; prompt must be truthy
CheckPrompt ==
  /\ pc = "prompt"
  /\ IF data.t # "obj"
       THEN Caught(FetcherPrefix, "object has no attribute 'get'")
       ELSE IF ~Truthy(data.v.prompt)
         THEN SystemExitWith("Payload missing \"prompt\" field")
         ELSE pc' = "post" /\ UNCHANGED <<stderr, exit_code>>
  /\ UNCHANGED <<fetcherInputs, stdout, file_read, data, response, posts,
                 redirects, renderVars, summaryVars>>

IsRedirect(r) == r.kind = "http" /\ r.location /\ r.status \in RedirectStatuses

\* requests: Session.max_redirects, the redirects that one call follows
DEFAULT_REDIRECT_LIMIT == 30

\* what a request of the call comes back with: an exception of requests, a
\* redirect to follow (TooManyRedirects when the limit is reached), or the
\* response that requests.post returns, the only one the program sees. The
\* request that follows a redirect is a GET after 301, 302 and 303 and has
\* the method of the request before it, with its body, after 307 and 308
\* (rebuild_method)
Receive(r) ==
  CASE r.kind = "timeout" ->
         /\ response' = r
         /\ Caught(FetcherPrefix, "Read timed out")
         /\ UNCHANGED redirects
    [] r.kind = "connection" ->
         /\ response' = r
         /\ Caught(FetcherPrefix, "Connection error")
         /\ UNCHANGED redirects
    [] IsRedirect(r) /\ redirects = DEFAULT_REDIRECT_LIMIT ->
         /\ response' = r
         /\ Caught(FetcherPrefix, "Exceeded 30 redirects.")
         /\ UNCHANGED redirects
    [] IsRedirect(r) /\ redirects < DEFAULT_REDIRECT_LIMIT ->
         /\ redirects' = redirects + 1
         /\ pc' = IF r.status \in {307, 308} THEN pc ELSE "get"
         /\ UNCHANGED <<response, stderr, exit_code>>
    [] OTHER ->
         /\ response' = r
         /\ pc' = "status"
         /\ UNCHANGED <<stderr, exit_code, redirects>>

\* lines 29-41: requests.post with timeout=60 sends the POST; it is sent
\* again when the response redirects with 307 or 308
HttpPost ==
  /\ pc = "post"
  /\ posts' = posts + 1
  /\ \E r \in Responses : Receive(r)
  /\ UNCHANGED <<fetcherInputs, stdout, file_read, data, renderVars, summaryVars>>

\* lines 29-41: the GET that requests.post sends after a 301, 302 or 303,
\* and again after a 307 or 308 that answers a GET
HttpGet ==
  /\ pc = "get"
  /\ \E r \in Responses : Receive(r)
  /\ UNCHANGED <<fetcherInputs, stdout, file_read, data, posts, renderVars,
                 summaryVars>>

\* requests: raise_for_status raises HTTPError for 400 <= status < 600
StatusIsError(r) == r.status >= 400 /\ r.status < 600

\* line 42
RaiseForStatus ==
  /\ pc = "status"
  /\ IF StatusIsError(response)
       THEN Caught(FetcherPrefix, "HTTPError")
       ELSE pc' = "extract" /\ UNCHANGED <<stderr, exit_code>>
  /\ UNCHANGED <<fetcherInputs, stdout, file_read, data, response, posts,
                 redirects, renderVars, summaryVars>>

\* part.get('text', '')
PartText(part) == IF part.text = JAbsent THEN <<>> ELSE part.text.v

\* ''.join(part.get('text', '') for part in parts)
RECURSIVE JoinParts(_)
JoinParts(parts) ==
  IF parts = <<>> THEN <<>> ELSE PartText(Head(parts)) \o JoinParts(Tail(parts))

\* candidates[0].get('content', {}).get('parts', [])
CandidateParts(c) == IF c.content = JAbsent THEN <<>> ELSE c.content.parts

\* line 45: payload.get('candidates') or []
CandidatesOf(body) ==
  IF Truthy(body.value.v.candidates) THEN body.value.v.candidates.v ELSE <<>>

\* OutputOf joining the parts of every candidate instead of the first one's
RECURSIVE JoinCandidates(_)
JoinCandidates(candidates) ==
  IF candidates = <<>> THEN <<>>
  ELSE JoinParts(CandidateParts(Head(candidates))) \o JoinCandidates(Tail(candidates))

OutputOfAll(candidates) == Strip(JoinCandidates(candidates))

\* lines 49-50
OutputOf(candidates) == Strip(JoinParts(CandidateParts(candidates[1])))

\* lines 44-54
ExtractText ==
  /\ pc = "extract"
  /\ IF response.body.kind = "notjson"
       THEN Caught(FetcherPrefix, "Expecting value") /\ UNCHANGED stdout
       ELSE LET candidates == CandidatesOf(response.body)
            IN IF candidates = <<>>
                 THEN Caught(FetcherPrefix, "No candidates returned by Gemini API")
                      /\ UNCHANGED stdout
                 ELSE IF OutputOf(candidates) = <<>>
                   THEN Caught(FetcherPrefix, "Gemini response contained no text")
                        /\ UNCHANGED stdout
                   ELSE /\ stdout' = Append(stdout, OutputOf(candidates))
                        /\ ReturnFromMain
                        /\ UNCHANGED stderr
  /\ UNCHANGED <<fetcherInputs, file_read, data, response, posts,
                 redirects, renderVars, summaryVars>>

NextFetcher ==
  \/ FetcherParseArgs
  \/ CheckApiKey
  \/ ReadFetcherInput
  \/ CheckPrompt
  \/ HttpPost
  \/ HttpGet
  \/ RaiseForStatus
  \/ ExtractText

SpecFetcher == InitFetcher /\ [][NextFetcher]_vars

-----------------------------------------------------------------------------
(* render_report.py: fmt_number, fmt_window *)

Ok(v) == [ok |-> TRUE, v |-> v]
Err(message) == [ok |-> FALSE, error |-> message]

DigitChar(d) == <<"0", "1", "2", "3", "4", "5", "6", "7", "8", "9">>[d + 1]

\* the digits of a non-negative int
RECURSIVE Digits10(_)
Digits10(n) == IF n < 10 THEN <<DigitChar(n)>> ELSE Digits10(n \div 10) \o <<DigitChar(n % 10)>>

\* str(n) of an int
Decimal(n) == IF n < 0 THEN <<"-">> \o Digits10(0 - n) ELSE Digits10(n)

\* a comma before every group of three digits counted from the right
RECURSIVE Grouped(_)
Grouped(ds) ==
  IF Len(ds) <= 3 THEN ds
  ELSE Grouped(SubSeq(ds, 1, Len(ds) - 3)) \o <<",">> \o SubSeq(ds, Len(ds) - 2, Len(ds))

\* f"{n:,}" of an int: the sign, then the grouped digits
WithCommas(n) == IF n < 0 THEN <<"-">> \o Grouped(Digits10(0 - n)) ELSE Grouped(Digits10(n))

\* sep.join(ss)
JoinWith(sep, ss) == Concat([i \in 1..Len(ss) |-> IF i = 1 THEN ss[i] ELSE sep \o ss[i]])

\* n in lower-case hexadecimal, w digits
RECURSIVE HexLower(_, _)
HexLower(n, w) ==
  IF w = 0 THEN <<>>
  ELSE HexLower(n \div 16, w - 1) \o <<Chars("0123456789abcdef")[(n % 16) + 1]>>

\* the ranges of code points above ASCII that str.isprintable() is false of
NonPrintableRanges ==
  <<
   <<128, 160>>, <<173, 173>>, <<888, 889>>, <<896, 899>>, <<907, 907>>,
   <<909, 909>>, <<930, 930>>, <<1328, 1328>>, <<1367, 1368>>,
   <<1419, 1420>>, <<1424, 1424>>, <<1480, 1487>>, <<1515, 1518>>,
   <<1525, 1541>>, <<1564, 1564>>, <<1757, 1757>>, <<1806, 1807>>,
   <<1867, 1868>>, <<1970, 1983>>, <<2043, 2044>>, <<2094, 2095>>,
   <<2111, 2111>>, <<2140, 2141>>, <<2143, 2143>>, <<2155, 2159>>,
   <<2191, 2199>>, <<2274, 2274>>, <<2436, 2436>>, <<2445, 2446>>,
   <<2449, 2450>>, <<2473, 2473>>, <<2481, 2481>>, <<2483, 2485>>,
   <<2490, 2491>>, <<2501, 2502>>, <<2505, 2506>>, <<2511, 2518>>,
   <<2520, 2523>>, <<2526, 2526>>, <<2532, 2533>>, <<2559, 2560>>,
   <<2564, 2564>>, <<2571, 2574>>, <<2577, 2578>>, <<2601, 2601>>,
   <<2609, 2609>>, <<2612, 2612>>, <<2615, 2615>>, <<2618, 2619>>,
   <<2621, 2621>>, <<2627, 2630>>, <<2633, 2634>>, <<2638, 2640>>,
   <<2642, 2648>>, <<2653, 2653>>, <<2655, 2661>>, <<2679, 2688>>,
   <<2692, 2692>>, <<2702, 2702>>, <<2706, 2706>>, <<2729, 2729>>,
   <<2737, 2737>>, <<2740, 2740>>, <<2746, 2747>>, <<2758, 2758>>,
   <<2762, 2762>>, <<2766, 2767>>, <<2769, 2783>>, <<2788, 2789>>,
   <<2802, 2808>>, <<2816, 2816>>, <<2820, 2820>>, <<2829, 2830>>,
   <<2833, 2834>>, <<2857, 2857>>, <<2865, 2865>>, <<2868, 2868>>,
   <<2874, 2875>>, <<2885, 2886>>, <<2889, 2890>>, <<2894, 2900>>,
   <<2904, 2907>>, <<2910, 2910>>, <<2916, 2917>>, <<2936, 2945>>,
   <<2948, 2948>>, <<2955, 2957>>, <<2961, 2961>>, <<2966, 2968>>,
   <<2971, 2971>>, <<2973, 2973>>, <<2976, 2978>>, <<2981, 2983>>,
   <<2987, 2989>>, <<3002, 3005>>, <<3011, 3013>>, <<3017, 3017>>,
   <<3022, 3023>>, <<3025, 3030>>, <<3032, 3045>>, <<3067, 3071>>,
   <<3085, 3085>>, <<3089, 3089>>, <<3113, 3113>>, <<3130, 3131>>,
   <<3141, 3141>>, <<3145, 3145>>, <<3150, 3156>>, <<3159, 3159>>,
   <<3163, 3164>>, <<3166, 3167>>, <<3172, 3173>>, <<3184, 3190>>,
   <<3213, 3213>>, <<3217, 3217>>, <<3241, 3241>>, <<3252, 3252>>,
   <<3258, 3259>>, <<3269, 3269>>, <<3273, 3273>>, <<3278, 3284>>,
   <<3287, 3292>>, <<3295, 3295>>, <<3300, 3301>>, <<3312, 3312>>,
   <<3315, 3327>>, <<3341, 3341>>, <<3345, 3345>>, <<3397, 3397>>,
   <<3401, 3401>>, <<3408, 3411>>, <<3428, 3429>>, <<3456, 3456>>,
   <<3460, 3460>>, <<3479, 3481>>, <<3506, 3506>>, <<3516, 3516>>,
   <<3518, 3519>>, <<3527, 3529>>, <<3531, 3534>>, <<3541, 3541>>,
   <<3543, 3543>>, <<3552, 3557>>, <<3568, 3569>>, <<3573, 3584>>,
   <<3643, 3646>>, <<3676, 3712>>, <<3715, 3715>>, <<3717, 3717>>,
   <<3723, 3723>>, <<3748, 3748>>, <<3750, 3750>>, <<3774, 3775>>,
   <<3781, 3781>>, <<3783, 3783>>, <<3790, 3791>>, <<3802, 3803>>,
   <<3808, 3839>>, <<3912, 3912>>, <<3949, 3952>>, <<3992, 3992>>,
   <<4029, 4029>>, <<4045, 4045>>, <<4059, 4095>>, <<4294, 4294>>,
   <<4296, 4300>>, <<4302, 4303>>, <<4681, 4681>>, <<4686, 4687>>,
   <<4695, 4695>>, <<4697, 4697>>, <<4702, 4703>>, <<4745, 4745>>,
   <<4750, 4751>>, <<4785, 4785>>, <<4790, 4791>>, <<4799, 4799>>,
   <<4801, 4801>>, <<4806, 4807>>, <<4823, 4823>>, <<4881, 4881>>,
   <<4886, 4887>>, <<4955, 4956>>, <<4989, 4991>>, <<5018, 5023>>,
   <<5110, 5111>>, <<5118, 5119>>, <<5760, 5760>>, <<5789, 5791>>,
   <<5881, 5887>>, <<5910, 5918>>, <<5943, 5951>>, <<5972, 5983>>,
   <<5997, 5997>>, <<6001, 6001>>, <<6004, 6015>>, <<6110, 6111>>,
   <<6122, 6127>>, <<6138, 6143>>, <<6158, 6158>>, <<6170, 6175>>,
   <<6265, 6271>>, <<6315, 6319>>, <<6390, 6399>>, <<6431, 6431>>,
   <<6444, 6447>>, <<6460, 6463>>, <<6465, 6467>>, <<6510, 6511>>,
   <<6517, 6527>>, <<6572, 6575>>, <<6602, 6607>>, <<6619, 6621>>,
   <<6684, 6685>>, <<6751, 6751>>, <<6781, 6782>>, <<6794, 6799>>,
   <<6810, 6815>>, <<6830, 6831>>, <<6863, 6911>>, <<6989, 6991>>,
   <<7039, 7039>>, <<7156, 7163>>, <<7224, 7226>>, <<7242, 7244>>,
   <<7305, 7311>>, <<7355, 7356>>, <<7368, 7375>>, <<7419, 7423>>,
   <<7958, 7959>>, <<7966, 7967>>, <<8006, 8007>>, <<8014, 8015>>,
   <<8024, 8024>>, <<8026, 8026>>, <<8028, 8028>>, <<8030, 8030>>,
   <<8062, 8063>>, <<8117, 8117>>, <<8133, 8133>>, <<8148, 8149>>,
   <<8156, 8156>>, <<8176, 8177>>, <<8181, 8181>>, <<8191, 8207>>,
   <<8232, 8239>>, <<8287, 8303>>, <<8306, 8307>>, <<8335, 8335>>,
   <<8349, 8351>>, <<8385, 8399>>, <<8433, 8447>>, <<8588, 8591>>,
   <<9255, 9279>>, <<9291, 9311>>, <<11124, 11125>>, <<11158, 11158>>,
   <<11508, 11512>>, <<11558, 11558>>, <<11560, 11564>>, <<11566, 11567>>,
   <<11624, 11630>>, <<11633, 11646>>, <<11671, 11679>>, <<11687, 11687>>,
   <<11695, 11695>>, <<11703, 11703>>, <<11711, 11711>>, <<11719, 11719>>,
   <<11727, 11727>>, <<11735, 11735>>, <<11743, 11743>>, <<11870, 11903>>,
   <<11930, 11930>>, <<12020, 12031>>, <<12246, 12271>>, <<12284, 12288>>,
   <<12352, 12352>>, <<12439, 12440>>, <<12544, 12548>>, <<12592, 12592>>,
   <<12687, 12687>>, <<12772, 12783>>, <<12831, 12831>>, <<42125, 42127>>,
   <<42183, 42191>>, <<42540, 42559>>, <<42744, 42751>>, <<42955, 42959>>,
   <<42962, 42962>>, <<42964, 42964>>, <<42970, 42993>>, <<43053, 43055>>,
   <<43066, 43071>>, <<43128, 43135>>, <<43206, 43213>>, <<43226, 43231>>,
   <<43348, 43358>>, <<43389, 43391>>, <<43470, 43470>>, <<43482, 43485>>,
   <<43519, 43519>>, <<43575, 43583>>, <<43598, 43599>>, <<43610, 43611>>,
   <<43715, 43738>>, <<43767, 43776>>, <<43783, 43784>>, <<43791, 43792>>,
   <<43799, 43807>>, <<43815, 43815>>, <<43823, 43823>>, <<43884, 43887>>,
   <<44014, 44015>>, <<44026, 44031>>, <<55204, 55215>>, <<55239, 55242>>,
   <<55292, 63743>>, <<64110, 64111>>, <<64218, 64255>>, <<64263, 64274>>,
   <<64280, 64284>>, <<64311, 64311>>, <<64317, 64317>>, <<64319, 64319>>,
   <<64322, 64322>>, <<64325, 64325>>, <<64451, 64466>>, <<64912, 64913>>,
   <<64968, 64974>>, <<64976, 65007>>, <<65050, 65055>>, <<65107, 65107>>,
   <<65127, 65127>>, <<65132, 65135>>, <<65141, 65141>>, <<65277, 65280>>,
   <<65471, 65473>>, <<65480, 65481>>, <<65488, 65489>>, <<65496, 65497>>,
   <<65501, 65503>>, <<65511, 65511>>, <<65519, 65531>>, <<65534, 65535>>,
   <<65548, 65548>>, <<65575, 65575>>, <<65595, 65595>>, <<65598, 65598>>,
   <<65614, 65615>>, <<65630, 65663>>, <<65787, 65791>>, <<65795, 65798>>,
   <<65844, 65846>>, <<65935, 65935>>, <<65949, 65951>>, <<65953, 65999>>,
   <<66046, 66175>>, <<66205, 66207>>, <<66257, 66271>>, <<66300, 66303>>,
   <<66340, 66348>>, <<66379, 66383>>, <<66427, 66431>>, <<66462, 66462>>,
   <<66500, 66503>>, <<66518, 66559>>, <<66718, 66719>>, <<66730, 66735>>,
   <<66772, 66775>>, <<66812, 66815>>, <<66856, 66863>>, <<66916, 66926>>,
   <<66939, 66939>>, <<66955, 66955>>, <<66963, 66963>>, <<66966, 66966>>,
   <<66978, 66978>>, <<66994, 66994>>, <<67002, 67002>>, <<67005, 67071>>,
   <<67383, 67391>>, <<67414, 67423>>, <<67432, 67455>>, <<67462, 67462>>,
   <<67505, 67505>>, <<67515, 67583>>, <<67590, 67591>>, <<67593, 67593>>,
   <<67638, 67638>>, <<67641, 67643>>, <<67645, 67646>>, <<67670, 67670>>,
   <<67743, 67750>>, <<67760, 67807>>, <<67827, 67827>>, <<67830, 67834>>,
   <<67868, 67870>>, <<67898, 67902>>, <<67904, 67967>>, <<68024, 68027>>,
   <<68048, 68049>>, <<68100, 68100>>, <<68103, 68107>>, <<68116, 68116>>,
   <<68120, 68120>>, <<68150, 68151>>, <<68155, 68158>>, <<68169, 68175>>,
   <<68185, 68191>>, <<68256, 68287>>, <<68327, 68330>>, <<68343, 68351>>,
   <<68406, 68408>>, <<68438, 68439>>, <<68467, 68471>>, <<68498, 68504>>,
   <<68509, 68520>>, <<68528, 68607>>, <<68681, 68735>>, <<68787, 68799>>,
   <<68851, 68857>>, <<68904, 68911>>, <<68922, 69215>>, <<69247, 69247>>,
   <<69290, 69290>>, <<69294, 69295>>, <<69298, 69375>>, <<69416, 69423>>,
   <<69466, 69487>>, <<69514, 69551>>, <<69580, 69599>>, <<69623, 69631>>,
   <<69710, 69713>>, <<69750, 69758>>, <<69821, 69821>>, <<69827, 69839>>,
   <<69865, 69871>>, <<69882, 69887>>, <<69941, 69941>>, <<69960, 69967>>,
   <<70007, 70015>>, <<70112, 70112>>, <<70133, 70143>>, <<70162, 70162>>,
   <<70207, 70271>>, <<70279, 70279>>, <<70281, 70281>>, <<70286, 70286>>,
   <<70302, 70302>>, <<70314, 70319>>, <<70379, 70383>>, <<70394, 70399>>,
   <<70404, 70404>>, <<70413, 70414>>, <<70417, 70418>>, <<70441, 70441>>,
   <<70449, 70449>>, <<70452, 70452>>, <<70458, 70458>>, <<70469, 70470>>,
   <<70473, 70474>>, <<70478, 70479>>, <<70481, 70486>>, <<70488, 70492>>,
   <<70500, 70501>>, <<70509, 70511>>, <<70517, 70655>>, <<70748, 70748>>,
   <<70754, 70783>>, <<70856, 70863>>, <<70874, 71039>>, <<71094, 71095>>,
   <<71134, 71167>>, <<71237, 71247>>, <<71258, 71263>>, <<71277, 71295>>,
   <<71354, 71359>>, <<71370, 71423>>, <<71451, 71452>>, <<71468, 71471>>,
   <<71495, 71679>>, <<71740, 71839>>, <<71923, 71934>>, <<71943, 71944>>,
   <<71946, 71947>>, <<71956, 71956>>, <<71959, 71959>>, <<71990, 71990>>,
   <<71993, 71994>>, <<72007, 72015>>, <<72026, 72095>>, <<72104, 72105>>,
   <<72152, 72153>>, <<72165, 72191>>, <<72264, 72271>>, <<72355, 72367>>,
   <<72441, 72703>>, <<72713, 72713>>, <<72759, 72759>>, <<72774, 72783>>,
   <<72813, 72815>>, <<72848, 72849>>, <<72872, 72872>>, <<72887, 72959>>,
   <<72967, 72967>>, <<72970, 72970>>, <<73015, 73017>>, <<73019, 73019>>,
   <<73022, 73022>>, <<73032, 73039>>, <<73050, 73055>>, <<73062, 73062>>,
   <<73065, 73065>>, <<73103, 73103>>, <<73106, 73106>>, <<73113, 73119>>,
   <<73130, 73439>>, <<73465, 73647>>, <<73649, 73663>>, <<73714, 73726>>,
   <<74650, 74751>>, <<74863, 74863>>, <<74869, 74879>>, <<75076, 77711>>,
   <<77811, 77823>>, <<78895, 82943>>, <<83527, 92159>>, <<92729, 92735>>,
   <<92767, 92767>>, <<92778, 92781>>, <<92863, 92863>>, <<92874, 92879>>,
   <<92910, 92911>>, <<92918, 92927>>, <<92998, 93007>>, <<93018, 93018>>,
   <<93026, 93026>>, <<93048, 93052>>, <<93072, 93759>>, <<93851, 93951>>,
   <<94027, 94030>>, <<94088, 94094>>, <<94112, 94175>>, <<94181, 94191>>,
   <<94194, 94207>>, <<100344, 100351>>, <<101590, 101631>>,
   <<101641, 110575>>, <<110580, 110580>>, <<110588, 110588>>,
   <<110591, 110591>>, <<110883, 110927>>, <<110931, 110947>>,
   <<110952, 110959>>, <<111356, 113663>>, <<113771, 113775>>,
   <<113789, 113791>>, <<113801, 113807>>, <<113818, 113819>>,
   <<113824, 118527>>, <<118574, 118575>>, <<118599, 118607>>,
   <<118724, 118783>>, <<119030, 119039>>, <<119079, 119080>>,
   <<119155, 119162>>, <<119275, 119295>>, <<119366, 119519>>,
   <<119540, 119551>>, <<119639, 119647>>, <<119673, 119807>>,
   <<119893, 119893>>, <<119965, 119965>>, <<119968, 119969>>,
   <<119971, 119972>>, <<119975, 119976>>, <<119981, 119981>>,
   <<119994, 119994>>, <<119996, 119996>>, <<120004, 120004>>,
   <<120070, 120070>>, <<120075, 120076>>, <<120085, 120085>>,
   <<120093, 120093>>, <<120122, 120122>>, <<120127, 120127>>,
   <<120133, 120133>>, <<120135, 120137>>, <<120145, 120145>>,
   <<120486, 120487>>, <<120780, 120781>>, <<121484, 121498>>,
   <<121504, 121504>>, <<121520, 122623>>, <<122655, 122879>>,
   <<122887, 122887>>, <<122905, 122906>>, <<122914, 122914>>,
   <<122917, 122917>>, <<122923, 123135>>, <<123181, 123183>>,
   <<123198, 123199>>, <<123210, 123213>>, <<123216, 123535>>,
   <<123567, 123583>>, <<123642, 123646>>, <<123648, 124895>>,
   <<124903, 124903>>, <<124908, 124908>>, <<124911, 124911>>,
   <<124927, 124927>>, <<125125, 125126>>, <<125143, 125183>>,
   <<125260, 125263>>, <<125274, 125277>>, <<125280, 126064>>,
   <<126133, 126208>>, <<126270, 126463>>, <<126468, 126468>>,
   <<126496, 126496>>, <<126499, 126499>>, <<126501, 126502>>,
   <<126504, 126504>>, <<126515, 126515>>, <<126520, 126520>>,
   <<126522, 126522>>, <<126524, 126529>>, <<126531, 126534>>,
   <<126536, 126536>>, <<126538, 126538>>, <<126540, 126540>>,
   <<126544, 126544>>, <<126547, 126547>>, <<126549, 126550>>,
   <<126552, 126552>>, <<126554, 126554>>, <<126556, 126556>>,
   <<126558, 126558>>, <<126560, 126560>>, <<126563, 126563>>,
   <<126565, 126566>>, <<126571, 126571>>, <<126579, 126579>>,
   <<126584, 126584>>, <<126589, 126589>>, <<126591, 126591>>,
   <<126602, 126602>>, <<126620, 126624>>, <<126628, 126628>>,
   <<126634, 126634>>, <<126652, 126703>>, <<126706, 126975>>,
   <<127020, 127023>>, <<127124, 127135>>, <<127151, 127152>>,
   <<127168, 127168>>, <<127184, 127184>>, <<127222, 127231>>,
   <<127406, 127461>>, <<127491, 127503>>, <<127548, 127551>>,
   <<127561, 127567>>, <<127570, 127583>>, <<127590, 127743>>,
   <<128728, 128732>>, <<128749, 128751>>, <<128765, 128767>>,
   <<128884, 128895>>, <<128985, 128991>>, <<129004, 129007>>,
   <<129009, 129023>>, <<129036, 129039>>, <<129096, 129103>>,
   <<129114, 129119>>, <<129160, 129167>>, <<129198, 129199>>,
   <<129202, 129279>>, <<129620, 129631>>, <<129646, 129647>>,
   <<129653, 129655>>, <<129661, 129663>>, <<129671, 129679>>,
   <<129709, 129711>>, <<129723, 129727>>, <<129734, 129743>>,
   <<129754, 129759>>, <<129768, 129775>>, <<129783, 129791>>,
   <<129939, 129939>>, <<129995, 130031>>, <<130042, 131071>>,
   <<173792, 173823>>, <<177977, 177983>>, <<178206, 178207>>,
   <<183970, 183983>>, <<191457, 194559>>, <<195102, 196607>>,
   <<201547, 917759>>, <<918000, 1114111>>
  >>

\* the characters written "U+XXXX" below U+0080 are the control characters
NonPrintable(cp) ==
  \/ cp < 128
  \/ \E i \in 1..Len(NonPrintableRanges) :
       NonPrintableRanges[i][1] <= cp /\ cp <= NonPrintableRanges[i][2]

\* repr() of one character of a str inside the given quotes
ReprChar(c, quote) ==
  IF c = quote \/ c = "\\" THEN <<"\\", c>>
  ELSE IF c = TAB THEN <<"\\", "t">>
  ELSE IF c = NL THEN <<"\\", "n">>
  ELSE IF c = CR THEN <<"\\", "r">>
  ELSE IF c = "\f" THEN <<"\\", "x", "0", "c">>
  ELSE IF Len(c) = 1 THEN <<c>>
  ELSE LET cp == CodePoint(c)
       IN IF ~NonPrintable(cp) THEN <<c>>
          ELSE IF cp < 256 THEN <<"\\", "x">> \o HexLower(cp, 2)
          ELSE IF cp < 65536 THEN <<"\\", "u">> \o HexLower(cp, 4)
          ELSE <<"\\", "U">> \o HexLower(cp, 8)

\* repr() of a str: double quotes only when it has a ' and no "
StrRepr(s) ==
  LET has(q) == \E i \in 1..Len(s) : s[i] = q
      quote == IF has("'") /\ ~has("\"") THEN "\"" ELSE "'"
  IN <<quote>> \o Concat([i \in 1..Len(s) |-> ReprChar(s[i], quote)]) \o <<quote>>

\* repr() of a value that json.loads returned: None, an int, a str, a list
\* of such, or {} (the key order of other objects is not in the model)
RECURSIVE PyRepr(_)
PyRepr(value) ==
  CASE value.t = "null" -> Chars("None")
    [] value.t = "num" -> Decimal(value.v)
    [] value.t = "str" -> StrRepr(value.v)
    [] value.t = "list" ->
         <<"[">> \o JoinWith(<<",", " ">>, [i \in 1..Len(value.v) |-> PyRepr(value.v[i])])
           \o <<"]">>
    [] value.t = "obj" /\ DOMAIN value.v = {} -> Chars("{}")

\* str(value), which f"{value}" and '{}'.format(value) write: a str as it is
Plain(value) == IF value.t = "str" THEN value.v ELSE PyRepr(value)

\* fmt_number: thousands separators for a number, str(value) otherwise
fmt_number(value) == IF value.t = "num" THEN WithCommas(value.v) ELSE Plain(value)

\* the local zone of datetime.fromtimestamp, in minutes east of UTC
UtcOffsetMinutes == 0

\* 0001-01-01 counted in days from the epoch
FirstDay == -719162

\* ValueError('year N is out of range'), the message a str
YearOutOfRange(year) == Chars("year ") \o Decimal(year) \o Chars(" is out of range")

\* datetime.fromtimestamp: the civil date of a day counted from 1970-01-01
\* (proleptic Gregorian); a ValueError for a year outside 1..9999, and for
\* 0001-01-01, whose day before is looked at and is in year 0
CivilFromDays(days) ==
  LET cycles == days \div 146097
      z == (days % 146097) + 719468
      era == z \div 146097
      doe == z - era * 146097
      yoe == (doe - doe \div 1460 + doe \div 36524 - doe \div 146096) \div 365
      doy == doe - (365 * yoe + yoe \div 4 - yoe \div 100)
      mp == (5 * doy + 2) \div 153
      month == IF mp < 10 THEN mp + 3 ELSE mp - 9
      year == yoe + (cycles + era) * 400 + (IF month <= 2 THEN 1 ELSE 0)
  IN IF days = FirstDay THEN Err(YearOutOfRange(0))
     ELSE IF year \notin 1..9999 THEN Err(YearOutOfRange(year))
     ELSE Ok([year |-> year, month |-> month,
              day |-> doy - (153 * mp + 2) \div 5 + 1])

MonthNames ==
  <<"Jan", "Feb", "Mar", "Apr", "May", "Jun", "Jul", "Aug", "Sep", "Oct", "Nov", "Dec">>

\* %d, %H, %M: two digits
TwoDigits(n) == <<DigitChar(n \div 10), DigitChar(n % 10)>>

\* dt.strftime('%b %d %Y %H:%M') of a minute counted from the epoch
Strftime(minute) ==
  LET Format(date) ==
        IF ~date.ok THEN date
        ELSE Ok(Chars(MonthNames[date.v.month]) \o <<" ">> \o TwoDigits(date.v.day)
                  \o <<" ">> \o Decimal(date.v.year) \o <<" ">>
                  \o TwoDigits((minute % 1440) \div 60) \o <<":">>
                  \o TwoDigits(minute % 60))
  IN Format(CivilFromDays(minute \div 1440))

\* fmt_window: "N/A" for None, else the local date and time of ts (an int of
\* milliseconds), to the minute. An int of the model is less than 2^31
\* milliseconds from the epoch, so its date is in 1969 or 1970 and
\* fromtimestamp returns
fmt_window(ts) ==
  IF ts = JNull THEN Chars("N/A")
  ELSE Strftime(ts.v \div 60000 + UtcOffsetMinutes).v

-----------------------------------------------------------------------------
(* render_report.py: build_overview_html, build_account_html, render_html *)

\* overview['earliestStart'] and overview['latestEnd']: the second key is
\* looked up only when the first value is truthy; a missing key is a KeyError
WindowShown(overview) ==
  IF overview.earliestStart = JAbsent THEN Err("'earliestStart'")
  ELSE IF ~Truthy(overview.earliestStart) THEN Ok(FALSE)
  ELSE IF overview.latestEnd = JAbsent THEN Err("'latestEnd'")
  ELSE Ok(Truthy(overview.latestEnd))

\* <tr><th>{html.escape(label)}</th><td>{html.escape(value)}</td></tr>
OverviewRow(label, value) ==
  [label |-> HtmlEscape(Chars(label)), value |-> HtmlEscape(value)]

build_overview_html(overview, window_hours) ==
  IF overview.totalLikes = JAbsent THEN Err("'totalLikes'")
  ELSE
    LET Table(shown) ==
          IF ~shown.ok THEN shown
          ELSE
            Ok([window_hours |-> Plain(window_hours),
                rows |->
                  <<OverviewRow("Accounts", fmt_number(overview.accounts)),
                    OverviewRow("Total tweets", fmt_number(overview.totalTweets)),
                    OverviewRow("Total likes", fmt_number(overview.totalLikes)),
                    OverviewRow("Total retweets", fmt_number(overview.totalRetweets)),
                    OverviewRow("Total replies", fmt_number(overview.totalReplies))>>
                  \o (IF shown.v
                        THEN <<OverviewRow("Overall window",
                                           fmt_window(overview.earliestStart)
                                             \o Chars(" to ")
                                             \o fmt_window(overview.latestEnd))>>
                        ELSE <<>>)])
    IN Table(WindowShown(overview))

TweetHtml(tweet) ==
  [meta |-> fmt_window(tweet.timestamp),
   text |-> HtmlEscape(tweet.text.v),
   likes |-> fmt_number(tweet.likes),
   retweets |-> fmt_number(tweet.retweets),
   replies |-> fmt_number(tweet.replies),
   link |-> IF Truthy(tweet.url) THEN <<HtmlEscape(tweet.url.v)>> ELSE <<>>]

RECURSIVE TweetsHtml(_)
TweetsHtml(tweets) ==
  IF tweets = <<>> THEN <<>> ELSE <<TweetHtml(Head(tweets))>> \o TweetsHtml(Tail(tweets))

MetricsHtml(m) ==
  <<[label |-> "Total tweets", value |-> fmt_number(m.total)],
    [label |-> "Originals", value |-> fmt_number(m.originals)],
    [label |-> "Replies", value |-> fmt_number(m.replies)],
    [label |-> "Retweets", value |-> fmt_number(m.retweets)],
    [label |-> "Likes", value |-> fmt_number(m.likes)],
    [label |-> "Retweets (engagement)", value |-> fmt_number(m.engagementRetweets)],
    [label |-> "Replies (engagement)", value |-> fmt_number(m.engagementReplies)]>>

build_account_html(account) ==
  IF account.aiSummary = JAbsent THEN Err("'aiSummary'")
  ELSE Ok([username |-> HtmlEscape(account.username.v),
           window |-> [start |-> fmt_window(account.windowStart),
                       end |-> fmt_window(account.windowEnd)],
           metrics |-> MetricsHtml(account.metrics),
           highlights |-> build_account_highlights(account.aiSummary),
           top_tweets |-> IF Truthy(account.topTweets)
                            THEN [list |-> TweetsHtml(account.topTweets.v)]
                            ELSE [empty |-> "No top tweets in this window."]])

\* '\n'.join(build_account_html(acc) for acc in payload['accounts']): the
\* first account that raises ends the rendering
RECURSIVE AccountsHtml(_)
AccountsHtml(accounts) ==
  IF accounts = <<>> THEN Ok(<<>>)
  ELSE LET Joined(first, rest) ==
             IF ~first.ok THEN first
             ELSE IF ~rest.ok THEN rest
             ELSE Ok(<<first.v>> \o rest.v)
       IN Joined(build_account_html(Head(accounts)), AccountsHtml(Tail(accounts)))

render_html(p) ==
  IF p.overview = JAbsent THEN Err("'overview'")
  ELSE IF p.windowHours = JAbsent THEN Err("'windowHours'")
  ELSE LET Page(overview_html, accounts_html) ==
             IF ~overview_html.ok THEN overview_html
             ELSE IF ~accounts_html.ok THEN accounts_html
             ELSE Ok([title |-> "Finance Twitter Report",
                      overview |-> overview_html.v,
                      accounts |-> accounts_html.v])
       IN Page(build_overview_html(p.overview.v, p.windowHours),
               IF p.accounts = JAbsent THEN Err("'accounts'")
               ELSE AccountsHtml(p.accounts.v))

-----------------------------------------------------------------------------
(* render_report.py: render_text *)

\* f"{value:,}": the ',' format is refused for a str (ValueError) and for
\* None, a list and a dict (TypeError)
CommaFormat(value) ==
  CASE value.t = "num" -> Ok(WithCommas(value.v))
    [] value.t = "str" -> Err("Cannot specify ',' with 's'.")
    [] value.t = "null" -> Err("unsupported format string passed to NoneType.__format__")
    [] value.t = "list" -> Err("unsupported format string passed to list.__format__")
    [] value.t = "obj" -> Err("unsupported format string passed to dict.__format__")

\* the overview lines of render_text, each a str
OverviewText(overview) ==
  IF overview.totalLikes = JAbsent THEN Err("'totalLikes'")
  ELSE
    LET Lines(likes, retweets, replies, shown) ==
          IF ~likes.ok THEN likes
          ELSE IF ~retweets.ok THEN retweets
          ELSE IF ~replies.ok THEN replies
          ELSE IF ~shown.ok THEN shown
          ELSE
            Ok(<<Chars("=== Run Overview ==="),
                 Chars("Accounts: ") \o Plain(overview.accounts),
                 Chars("Total tweets: ") \o Plain(overview.totalTweets),
                 Chars("Engagement totals - likes: ") \o likes.v
                   \o Chars(", retweets: ") \o retweets.v
                   \o Chars(", replies: ") \o replies.v>>
               \o (IF shown.v
                     THEN <<Chars("Overall window: ")
                              \o fmt_window(overview.earliestStart)
                              \o Chars(" to ") \o fmt_window(overview.latestEnd)>>
                     ELSE <<>>)
               \o <<<<>>>>)
    IN Lines(CommaFormat(overview.totalLikes), CommaFormat(overview.totalRetweets),
             CommaFormat(overview.totalReplies), WindowShown(overview))

TweetText(idx, tweet) ==
  <<Chars("  ") \o Decimal(idx) \o Chars(". [") \o fmt_window(tweet.timestamp)
      \o Chars("] ") \o Plain(tweet.text),
    Chars("    likes ") \o fmt_number(tweet.likes)
      \o Chars(" | retweets ") \o fmt_number(tweet.retweets)
      \o Chars(" | replies ") \o fmt_number(tweet.replies)>>
  \o (IF Truthy(tweet.url) THEN <<Chars("    link: ") \o Plain(tweet.url)>> ELSE <<>>)

\* for idx, tweet in enumerate(account['topTweets'], 1)
RECURSIVE TweetsText(_, _)
TweetsText(tweets, idx) ==
  IF tweets = <<>> THEN <<>>
  ELSE TweetText(idx, Head(tweets)) \o TweetsText(Tail(tweets), idx + 1)

AccountText(account) ==
  LET m == account.metrics
  IN IF account.aiSummary = JAbsent THEN Err("'aiSummary'")
     ELSE Ok(<<Chars("=== @") \o Plain(account.username) \o Chars(" ==="),
               Chars("Window: ") \o fmt_window(account.windowStart)
                 \o Chars(" to ") \o fmt_window(account.windowEnd),
               Chars("Tweets collected: ") \o Plain(m.total)
                 \o Chars(" (originals: ") \o Plain(m.originals)
                 \o Chars(", replies: ") \o Plain(m.replies)
                 \o Chars(", retweets: ") \o Plain(m.retweets) \o Chars(")"),
               Chars("Engagement totals - likes: ") \o fmt_number(m.likes)
                 \o Chars(", retweets: ") \o fmt_number(m.engagementRetweets)
                 \o Chars(", replies: ") \o fmt_number(m.engagementReplies),
               Chars("AI Highlights:")>>
             \o text_highlights(account.aiSummary)
             \o (IF Truthy(account.topTweets)
                   THEN <<Chars("Top tweets:")>> \o TweetsText(account.topTweets.v, 1)
                   ELSE <<Chars("Top tweets: none in this window.")>>)
             \o <<<<>>>>)

\* for account in payload['accounts']: the first account that raises ends
\* the rendering
RECURSIVE AccountsText(_)
AccountsText(accounts) ==
  IF accounts = <<>> THEN Ok(<<>>)
  ELSE LET Joined(first, rest) ==
             IF ~first.ok THEN first
             ELSE IF ~rest.ok THEN rest
             ELSE Ok(first.v \o rest.v)
       IN Joined(AccountText(Head(accounts)), AccountsText(Tail(accounts)))

\* the text document, a str: '\n'.join(lines).strip() + '\n'
render_text(p) ==
  IF p.windowHours = JAbsent THEN Err("'windowHours'")
  ELSE IF p.overview = JAbsent THEN Err("'overview'")
  ELSE LET Document(overview_text, accounts_text) ==
             IF ~overview_text.ok THEN overview_text
             ELSE IF ~accounts_text.ok THEN accounts_text
             ELSE Ok(Strip(JoinLines(
                       <<Chars("Finance Twitter report covering the last ")
                           \o Plain(p.windowHours) \o Chars(" hours"),
                         <<>>>>
                       \o overview_text.v \o accounts_text.v)) \o <<NL>>)
       IN Document(OverviewText(p.overview.v),
                   IF p.accounts = JAbsent THEN Err("'accounts'")
                   ELSE AccountsText(p.accounts.v))

-----------------------------------------------------------------------------
(* render_report.py: the Report Renderer *)

\* the command line: each required flag given with a path, -h/--help given,
\* an argument the parser does not know given
RendererArgs ==
  LET command == [input |-> TRUE, html_output |-> TRUE, text_output |-> TRUE,
                  help |-> FALSE, extra |-> FALSE]
  IN {command, [command EXCEPT !.input = FALSE],
      [command EXCEPT !.html_output = FALSE],
      [command EXCEPT !.text_output = FALSE],
      [command EXCEPT !.help = TRUE], [command EXCEPT !.extra = TRUE]}

\* earliestStart / latestEnd: key missing, null, the epoch itself, a later time (ms)
WindowValues == {JAbsent, JNull, JNum(0), JNum(1500000000)}
\* totalLikes: key missing, a count, a negative number, a string, null
LikesValues == {JAbsent, JNum(1234567), JNum(0 - 1500), JStr(<<"1", "2">>), JNull}

\* every totalLikes with the window given, every window with a count of likes
Overviews ==
  LET sample ==
        [accounts |-> JNum(2), totalTweets |-> JNum(40), totalLikes |-> JNum(1234567),
         totalRetweets |-> JNum(1000), totalReplies |-> JNum(6),
         earliestStart |-> JNum(1500000000), latestEnd |-> JNum(1500000000)]
  IN {[sample EXCEPT !.totalLikes = likes] : likes \in LikesValues}
     \cup {[sample EXCEPT !.earliestStart = e, !.latestEnd = l] :
             e \in WindowValues, l \in WindowValues}

SampleMetrics ==
  [total |-> JNum(12), originals |-> JNum(7), replies |-> JNum(3), retweets |-> JNum(2),
   likes |-> JNum(4321), engagementRetweets |-> JNum(15), engagementReplies |-> JNum(9)]

SampleTweet ==
  [timestamp |-> JNum(1500000000), text |-> JStr(<<"a", "<", "b">>),
   likes |-> JNum(1500), retweets |-> JNum(2), replies |-> JNum(0),
   url |-> JStr(Chars("http://x "))]

AccountInputs ==
  {[username |-> JStr(<<"u">>), windowStart |-> JNum(1500000000), windowEnd |-> JNull,
    metrics |-> SampleMetrics, aiSummary |-> a, topTweets |-> t] :
     a \in {JAbsent, JStr(<<"-", " ", "a", NL, " ">>)},
     t \in {JList(<<>>), JList(<<SampleTweet>>)}}

AccountLists == UNION {[1..n -> AccountInputs] : n \in 0..MaxAccounts}

Payloads ==
  {[windowHours |-> w, overview |-> o, accounts |-> a] :
     w \in {JAbsent, JNum(24)},
     o \in {JAbsent} \cup {JObj(x) : x \in Overviews},
     a \in {JAbsent} \cup {JList(l) : l \in AccountLists}}

RendererFiles ==
  {[kind |-> "unreadable"], [kind |-> "notjson"],
   [kind |-> "json", value |-> JList(<<>>)]}
  \cup {[kind |-> "json", value |-> JObj(p)] : p \in Payloads}

InitRenderer ==
  /\ pc = "start"
  /\ args \in RendererArgs
  /\ input_file \in RendererFiles
  /\ stdout = <<>> /\ stderr = <<>> /\ exit_code = NoExit
  /\ payload = None /\ html_output = None /\ text_output = None
  /\ html_file = "untouched" /\ text_file = "untouched"
  /\ FetchIdle /\ SummaryIdle

\* lines 317-321: parser.parse_args() with three required flags
RendererParseArgs ==
  /\ pc = "start"
  /\ IF args.help THEN ArgparseHelp /\ UNCHANGED stderr
     ELSE IF ~(args.input /\ args.html_output /\ args.text_output) \/ args.extra
       THEN ArgparseError /\ UNCHANGED stdout
     ELSE pc' = "read" /\ UNCHANGED <<stdout, stderr, exit_code>>
  /\ UNCHANGED <<args, input_file, fetchVars, renderVars, summaryVars>>

\* line 323: json.loads(Path(args.input).read_text(encoding='utf-8'))
ReadPayload ==
  /\ pc = "read"
  /\ file_read' = TRUE
  /\ CASE input_file.kind = "unreadable" ->
            Caught(RendererPrefix, "No such file or directory") /\ UNCHANGED payload
       [] input_file.kind = "notjson" ->
            Caught(RendererPrefix, "Expecting value") /\ UNCHANGED payload
       [] OTHER ->
            payload' = input_file.value /\ pc' = "render_html"
            /\ UNCHANGED <<stderr, exit_code>>
  /\ UNCHANGED <<args, input_file, stdout, api_key, data, response, posts,
                 redirects, html_output, text_output, html_file, text_file,
                 summaryVars>>

\* RenderHtml writing the HTML file as soon as the HTML is rendered, before
\* the text is rendered
RenderHtmlAndWrite ==
  /\ pc = "render_html"
  /\ \E html \in {IF payload.t # "obj"
                     THEN Err("list indices must be integers or slices, not str")
                     ELSE render_html(payload.v)} :
       IF html.ok
         THEN /\ html_output' = html.v
              /\ html_file' = "written"
              /\ pc' = "render_text"
              /\ UNCHANGED <<stderr, exit_code>>
         ELSE Caught(RendererPrefix, html.error) /\ UNCHANGED <<html_output, html_file>>
  /\ UNCHANGED <<args, input_file, stdout, fetchVars, payload, text_output,
                 text_file, summaryVars>>

\* line 324: html_output = render_html(payload)
RenderHtml ==
  /\ pc = "render_html"
  /\ \E html \in {IF payload.t # "obj"
                     THEN Err("list indices must be integers or slices, not str")
                     ELSE render_html(payload.v)} :
       IF html.ok
         THEN /\ html_output' = html.v
              /\ pc' = "render_text"
              /\ UNCHANGED <<stderr, exit_code>>
         ELSE Caught(RendererPrefix, html.error) /\ UNCHANGED html_output
  /\ UNCHANGED <<args, input_file, stdout, fetchVars, payload, text_output,
                 html_file, text_file, summaryVars>>

\* line 325: text_output = render_text(payload)
RenderText ==
  /\ pc = "render_text"
  /\ \E text \in {render_text(payload.v)} :
       IF text.ok
         THEN /\ text_output' = JStr(text.v)
              /\ pc' = "write_html"
              /\ UNCHANGED <<stderr, exit_code>>
         ELSE Caught(RendererPrefix, text.error) /\ UNCHANGED text_output
  /\ UNCHANGED <<args, input_file, stdout, fetchVars, payload, html_output,
                 html_file, text_file, summaryVars>>

\* Path.write_text: the whole text is written, or OSError is raised with the
\* file not opened ("untouched") or opened and cut short ("partial")
WriteOutcomes == {"written", "untouched", "partial"}

\* line 327: Path(args.html_output).write_text(html_output, encoding='utf-8')
WriteHtml ==
  /\ pc = "write_html"
  /\ \E outcome \in WriteOutcomes :
       /\ html_file' = outcome
       /\ IF outcome = "written"
            THEN pc' = "write_text" /\ UNCHANGED <<stderr, exit_code>>
            ELSE Caught(RendererPrefix, "OSError: --html-output")
  /\ UNCHANGED <<args, input_file, stdout, fetchVars, payload, html_output,
                 text_output, text_file, summaryVars>>

\* line 328: Path(args.text_output).write_text(text_output, encoding='utf-8')
WriteText ==
  /\ pc = "write_text"
  /\ \E outcome \in WriteOutcomes :
       /\ text_file' = outcome
       /\ IF outcome = "written"
            THEN ReturnFromMain /\ UNCHANGED stderr
            ELSE Caught(RendererPrefix, "OSError: --text-output")
  /\ UNCHANGED <<args, input_file, stdout, fetchVars, payload, html_output,
                 text_output, html_file, summaryVars>>

NextRenderer ==
  \/ RendererParseArgs
  \/ ReadPayload
  \/ RenderHtml
  \/ RenderText
  \/ WriteHtml
  \/ WriteText

SpecRenderer == InitRenderer /\ [][NextRenderer]_vars

-----------------------------------------------------------------------------
(* Properties of parse_ai_summary and the AI Highlights, under SpecSummary *)

\* the numbered-bullet rule as documented: one digit, then '.' or ')'
DocumentedNumbered(line) ==
  /\ IsDigit(Slice(line, 0, 1))
  /\ Slice(line, 1, 2) \in {<<".">>, <<")">>}

RECURSIVE DocumentedClassify(_)
DocumentedClassify(lines) ==
  IF lines = <<>> THEN [bullets |-> <<>>, paragraphs |-> <<>>]
  ELSE LET line == Head(lines)
           rest == DocumentedClassify(Tail(lines))
       IN IF IsMarkerBullet(line)
            THEN [rest EXCEPT !.bullets = <<Strip(Slice(line, 2, Len(line)))>> \o @]
          ELSE IF DocumentedNumbered(line)
            THEN [rest EXCEPT !.bullets = <<Strip(Slice(line, 3, Len(line)))>> \o @]
          ELSE [rest EXCEPT !.paragraphs = <<line>> \o @]

\* C1: for every non-empty summary, parse_ai_summary classifies each trimmed
\* non-empty line as a bullet when it starts with "- " or "* " or with one
\* digit followed by '.' or ')', and as a paragraph otherwise, keeping the
\* order; "- a\n- b\n2. c\nplain text" gives bullets a, b, c and the one
\* paragraph "plain text".
C1_ParseAsDocumented ==
  (parsed # None /\ Truthy(summary)) =>
    /\ parsed = DocumentedClassify(SummaryLines(summary.v))
    /\ summary.v = ExampleSummary =>
         /\ parsed.bullets = <<<<"a">>, <<"b">>, <<"c">>>>
         /\ parsed.paragraphs = <<<<"p", "l", "a", "i", "n", " ", "t", "e", "x", "t">>>>

HtmlFallback == summary_parts = <<[tag |-> "p", text |-> NoHighlights]>>
TextFallback == summary_text = <<Chars("  ") \o NoHighlights>>

\* C10: for every aiSummary the HTML block is the fixed "No highlights
\* available." message exactly when the text output has the line
\* "  No highlights available.", and every summary line the text output lists
\* has visible content.
C10_FallbackAgrees ==
  pc = "rendered" =>
    /\ HtmlFallback <=> TextFallback
    /\ ~TextFallback => \A i \in 1..Len(summary_text) : Strip(summary_text[i]) # <<>>

-----------------------------------------------------------------------------
(* Properties of the Summary Fetcher, under SpecFetcher *)

OnePrefixedLine(prefix) == Len(stderr) = 1 /\ stderr[1].prefix = prefix

\* the command line is one the parser accepts and does not answer with help
FetcherAccepted == args.input /\ ~args.help /\ ~args.extra

\* C2: every failing run of the Summary Fetcher (absent API key, unparsable
\* input, missing or empty prompt, HTTP error or timeout, no candidates, empty
\* text) writes "AI summary renderer failed: <message>" to standard error and
\* exits with code 1.
C2_FailuresPrefixed ==
  (pc = "exited" /\ FetcherAccepted /\ exit_code # 0) =>
    exit_code = 1 /\ OnePrefixedLine(FetcherPrefix)

PromptMissing ==
  /\ input_file.kind = "json"
  /\ input_file.value.t = "obj"
  /\ input_file.value.v.prompt \in {JAbsent, JNull, JStr(<<>>), EmptyObj}

KeyMissing == api_key \in {JAbsent, JStr(<<>>)}

\* C3: the POST is issued only after the API key was found non-empty and the
\* prompt present and non-empty; every run with the key absent or the prompt
\* missing or empty exits 1 with no network call, and with the key absent
\* the input file is never read.
C3_PostAfterValidation ==
  /\ posts > 0 => ~KeyMissing /\ file_read /\ ~PromptMissing
  /\ KeyMissing => ~file_read
  /\ (pc = "exited" /\ (KeyMissing \/ PromptMissing)) =>
       exit_code = 1 /\ posts = 0 /\ response = None

\* the text the first candidate is documented to give: its text parts in
\* order with nothing between them, without the surrounding whitespace
RECURSIVE ConcatTexts(_, _)
ConcatTexts(ps, n) ==
  IF n = 0 THEN <<>>
  ELSE ConcatTexts(ps, n - 1) \o (IF ps[n].text.t = "str" THEN ps[n].text.v ELSE <<>>)

ExpectedText(c) ==
  LET ps == IF c.content = JAbsent THEN <<>> ELSE c.content.parts
      joined == ConcatTexts(ps, Len(ps))
      keep == {i \in 1..Len(joined) : joined[i] \notin Whitespace}
  IN IF keep = {} THEN <<>>
     ELSE SubSeq(joined, CHOOSE i \in keep : \A j \in keep : i <= j,
                         CHOOSE i \in keep : \A j \in keep : i >= j)

GotJson2xx ==
  /\ response # None /\ response.kind = "http"
  /\ response.status \in 200..299
  /\ response.body.kind = "json"

ListedCandidates ==
  LET c == response.body.value.v.candidates
  IN IF c.t = "list" THEN c.v ELSE <<>>

\* C4: after a 2xx response, the run prints the trimmed concatenation of the
\* first candidate's text parts and exits 0 exactly when that text is
\* non-empty; with no candidates it fails with the "No candidates" error, with
\* an empty first candidate it fails whatever the later candidates hold, and
\* a failing run prints nothing and exits 1.
C4_FirstCandidateText ==
  (pc = "exited" /\ GotJson2xx) =>
    IF ListedCandidates = <<>>
      THEN /\ exit_code = 1 /\ stdout = <<>>
           /\ stderr = <<[prefix |-> FetcherPrefix,
                          message |-> "No candidates returned by Gemini API"]>>
      ELSE IF ExpectedText(ListedCandidates[1]) # <<>>
        THEN exit_code = 0 /\ stdout = <<ExpectedText(ListedCandidates[1])>>
        ELSE exit_code = 1 /\ stdout = <<>> /\ OnePrefixedLine(FetcherPrefix)

C4_Witness ==
  /\ pc = "exited" /\ GotJson2xx
  /\ Len(ListedCandidates) = 2
  /\ ExpectedText(ListedCandidates[1]) = <<>>
  /\ ExpectedText(ListedCandidates[2]) # <<>>
  /\ exit_code = 1 /\ stdout = <<>>

Validated ==
  /\ FetcherAccepted
  /\ ~KeyMissing
  /\ input_file.kind = "json" /\ input_file.value.t = "obj"
  /\ ~PromptMissing

CallFailed ==
  /\ response # None
  /\ \/ response.kind \in {"timeout", "connection"}
     \/ response.kind = "http" /\ response.status \notin 200..299

\* C8: at most one HTTP POST is issued in a run, exactly one in every run
\* that passes the key and prompt validation, and after the call fails
\* (timeout, network failure, non-2xx status) the run exits 1 with no second
\* call.
C8_OnePost ==
  /\ posts <= 1
  /\ (Validated /\ pc \in {"status", "extract", "exited"}) => posts = 1
  /\ (pc = "exited" /\ CallFailed) => exit_code = 1 /\ posts = 1

-----------------------------------------------------------------------------
(* Properties of the Report Renderer, under SpecRenderer *)

\* the command line is one the parser accepts and does not answer with help
AllFlags ==
  /\ args.input /\ args.html_output /\ args.text_output
  /\ ~args.help /\ ~args.extra

\* the input holds an object that both renderers accept
Renderable ==
  /\ input_file.kind = "json" /\ input_file.value.t = "obj"
  /\ render_html(input_file.value.v).ok
  /\ render_text(input_file.value.v).ok

\* C5: no output file is touched unless the input was read and parsed and
\* both documents were rendered; the text file is touched only after the
\* HTML file was written; a run that ends with the HTML file written and the
\* text file not written is one whose text write failed.
C5_NoPartialOutput ==
  /\ (html_file # "untouched" \/ text_file # "untouched") =>
       /\ file_read /\ Renderable
       /\ html_output # None /\ text_output # None
  /\ text_file # "untouched" => html_file = "written"
  /\ (pc = "exited" /\ html_file = "written" /\ text_file # "written") =>
       /\ exit_code = 1
       /\ stderr = <<[prefix |-> RendererPrefix, message |-> "OSError: --text-output"]>>

C5_Witness ==
  /\ pc = "exited" /\ html_file = "written" /\ text_file = "partial"
  /\ exit_code = 1

HasWindowRow ==
  \E i \in 1..Len(html_output.overview.rows) :
    html_output.overview.rows[i].label = Chars("Overall window")

HasWindowLine ==
  \E i \in 1..Len(SplitLines(text_output.v)) :
    StartsWith(SplitLines(text_output.v)[i], Chars("Overall window: "))

\* everything but the two window fields is as the data model requires
ValidButWindow(p) ==
  /\ p.windowHours # JAbsent
  /\ p.overview # JAbsent /\ p.overview.v.totalLikes.t = "num"
  /\ p.accounts # JAbsent
  /\ \A i \in 1..Len(p.accounts.v) : p.accounts.v[i].aiSummary # JAbsent

\* C6: for every overview whose earliestStart and latestEnd are each an
\* epoch-millisecond value, null or absent, both renderers show the
\* "Overall window" as "<start> to <end>" when both values are present and
\* leave it out, without failing, when either is null or absent.
C6_WindowShownIffBoth ==
  (/\ pc \in {"write_html", "write_text", "exited"} /\ AllFlags
   /\ input_file.kind = "json" /\ input_file.value.t = "obj"
   /\ ValidButWindow(input_file.value.v)) =>
    LET o == input_file.value.v.overview.v
    IN /\ html_output # None /\ text_output # None
       /\ IF o.earliestStart.t = "num" /\ o.latestEnd.t = "num"
            THEN HasWindowRow /\ HasWindowLine
            ELSE ~HasWindowRow /\ ~HasWindowLine

\* C7: a run of the Report Renderer exits 0 only after both files were
\* written, and every failing run (missing required flag, unreadable or
\* unparsable input, missing field, write failure) writes "Report renderer
\* failed: <message>" to standard error and exits with code 1.
C7_ExitCodes ==
  pc = "exited" =>
    /\ exit_code = 0 => html_file = "written" /\ text_file = "written"
    /\ exit_code # 0 => exit_code = 1 /\ OnePrefixedLine(RendererPrefix)

====
